---------------------------- MODULE Spec2Model ----------------------------
(***************************************************************************)
(* A model of the bazel-init prototype (experimental/init): the library    *)
(* autodetection helpers of autodetect.py.                                 *)
(*                                                                         *)
(* Python strings are modelled as sequences of one-character strings, so   *)
(* that splitting, stripping, prefix tests and regular-expression matches  *)
(* are computed character by character as the interpreter computes them.   *)
(* Each helper has a specification of its own (SpecVersion, SpecFlags,     *)
(* SpecSub, SpecPc, SpecPkgConfig, SpecFind) over the shared variables;    *)
(* the variables of the helpers a specification does not run stay idle.    *)
(***************************************************************************)
EXTENDS Integers, Sequences, FiniteSets, TLC

VARIABLES
    \* version_compare
    ver_pc, version1, version2, ver_ret,
    \* __process_flags
    flags_pc, astr, strip_option, flags_ret,
    \* sub_variables
    sub_pc, value, variables, value0,
    \* read_pc_as_pkg_config
    pc_pc, pc_file, pc_order, pc_ret,
    \* pkg_config
    pkg_pc, pkg_args, pkg_log, pkg_todo, pkg_result, pkg_ret,
    \* find_library
    fl_pc, fl_log, fl_brew_prefix, fl_port_files, fl_ret,
    \* BuildGeneratorHelper: the builders and the labels made, the bind
    \* records allocated, the calls of bind and of a label's serialize
    builders, labels, nobj, bind_log,
    \* BuildGeneratorHelper.generate: its position, its builder, the builders
    \* generated,
    \* the builders when it was called, the exception that ended it
    gen_pc, gen_builder, gen_done, gen_before, gen_ret,
    \* the output sink, and the calls made on package helpers
    sink, sink_log,
    \* BuildSerializable.serialize: its position, object, dict order, result
    ser_pc, ser_obj, ser_order, ser_ret,
    \* __pc_variables: its position, the mapping it was called with, the
    \* mapping as rewritten so far, the iteration order, the loop index
    pv_pc, pv_raw, pv_variables, pv_order, pv_i

verVars   == <<ver_pc, version1, version2, ver_ret>>
flagsVars == <<flags_pc, astr, strip_option, flags_ret>>
subVars   == <<sub_pc, value, variables, value0>>
pcVars    == <<pc_pc, pc_file, pc_order, pc_ret>>
pkgVars   == <<pkg_pc, pkg_args, pkg_log, pkg_todo, pkg_result, pkg_ret>>
flVars    == <<fl_pc, fl_log, fl_brew_prefix, fl_port_files, fl_ret>>
bgVars    == <<builders, labels, nobj, bind_log>>
genVars   == <<gen_pc, gen_builder, gen_done, gen_before, gen_ret>>
outVars   == <<sink, sink_log>>
serVars   == <<ser_pc, ser_obj, ser_order, ser_ret>>
pvVars    == <<pv_pc, pv_raw, pv_variables, pv_order, pv_i>>
autoVars  == <<verVars, flagsVars, subVars, pcVars, pkgVars, flVars, pvVars>>
vars      == <<verVars, flagsVars, subVars, pcVars, pkgVars, flVars,
               bgVars, genVars, outVars, serVars, pvVars>>

---------------------------------------------------------------------------
(* Bounds of the model.                                                    *)

\* longest generated version string
MaxVerLen == 3
\* longest generated flag-list response
MaxFlagLen == 4
\* most pieces (literal characters, ${name} tokens) of a generated value
MaxSubPieces == 2
\* longest value the substitution loop is followed to
MaxSubLen == 40
\* most iterations a call of sub_variables made by another helper is followed
\* for; a call that needs more is taken not to return
MaxSubIter == 6
\* most lines of a generated .pc file
MaxPcLines == 4

---------------------------------------------------------------------------
(* Python string primitives.                                               *)

\* Python's None
None == [kind |-> "None"]

\* the code point of a character (str comparison is by code point)
Ord(c) ==
    CASE c = "\t" -> 9
      [] c = "\n" -> 10
      [] c = " " -> 32
      [] c = "$" -> 36
      [] c = "-" -> 45
      [] c = "." -> 46
      [] c = "/" -> 47
      [] c = "0" -> 48
      [] c = "1" -> 49
      [] c = "2" -> 50
      [] c = "3" -> 51
      [] c = "7" -> 55
      [] c = "9" -> 57
      [] c = ":" -> 58
      [] c = "=" -> 61
      [] c = "D" -> 68
      [] c = "I" -> 73
      [] c = "L" -> 76
      [] c = "_" -> 95
      [] c = "a" -> 97
      [] c = "b" -> 98
      [] c = "c" -> 99
      [] c = "l" -> 108
      [] c = "p" -> 112
      [] c = "x" -> 120
      [] c = "{" -> 123
      [] c = "}" -> 125
      [] OTHER -> 0

\* str.isspace for one character
IsSpace(c) == c \in {" ", "\t", "\n"}

\* s.startswith(p)
StartsWith(s, p) == Len(p) <= Len(s) /\ SubSeq(s, 1, Len(p)) = p

\* s.endswith(p)
EndsWith(s, p) ==
    Len(p) <= Len(s) /\ SubSeq(s, Len(s) - Len(p) + 1, Len(s)) = p

\* s[n:]
DropFirst(s, n) == SubSeq(s, n + 1, Len(s))

RECURSIVE StrLess(_, _)
\* a < b on two str: lexicographic by code point, a proper prefix is smaller
StrLess(a, b) ==
    IF b = <<>> THEN FALSE
    ELSE IF a = <<>> THEN TRUE
    ELSE IF Ord(Head(a)) # Ord(Head(b)) THEN Ord(Head(a)) < Ord(Head(b))
    ELSE StrLess(Tail(a), Tail(b))

RECURSIVE SplitOn(_, _)
\* s.split(sep) for a one-character sep: empty fields are kept
SplitOn(s, sep) ==
    IF \A i \in 1..Len(s) : s[i] # sep THEN <<s>>
    ELSE LET k == CHOOSE i \in 1..Len(s) :
                      s[i] = sep /\ \A j \in 1..(i - 1) : s[j] # sep
         IN  <<SubSeq(s, 1, k - 1)>> \o SplitOn(DropFirst(s, k), sep)

RECURSIVE LStrip(_)
LStrip(s) == IF s # <<>> /\ IsSpace(Head(s)) THEN LStrip(Tail(s)) ELSE s

RECURSIVE RStrip(_)
RStrip(s) ==
    IF s # <<>> /\ IsSpace(s[Len(s)]) THEN RStrip(SubSeq(s, 1, Len(s) - 1))
    ELSE s

\* s.strip()
Strip(s) == RStrip(LStrip(s))

RECURSIVE SplitWs(_)
\* s.split(): fields separated by runs of whitespace, no empty field
SplitWs(s) ==
    LET t == LStrip(s)
    IN  IF t = <<>> THEN <<>>
        ELSE IF \A i \in 1..Len(t) : ~IsSpace(t[i]) THEN <<t>>
        ELSE LET k == CHOOSE i \in 1..Len(t) :
                          IsSpace(t[i]) /\ \A j \in 1..(i - 1) : ~IsSpace(t[j])
             IN  <<SubSeq(t, 1, k - 1)>> \o SplitWs(DropFirst(t, k))

\* all strings over alphabet A of length at most n
StringsUpTo(A, n) == UNION {[1..k -> A] : k \in 0..n}

---------------------------------------------------------------------------
(* version_compare                                                         *)

Min(a, b) == IF a < b THEN a ELSE b

RECURSIVE VersionLoop(_, _, _)
\* the for loop of version_compare from index i (1-based), then the length test
VersionLoop(ver1, ver2, i) ==
    IF i <= Min(Len(ver1), Len(ver2))
    THEN IF StrLess(ver2[i], ver1[i]) THEN 1
         ELSE IF StrLess(ver1[i], ver2[i]) THEN -1
         ELSE VersionLoop(ver1, ver2, i + 1)
    ELSE IF Len(ver1) < Len(ver2) THEN -1
         ELSE IF Len(ver1) > Len(ver2) THEN 1
         ELSE 0

\* a plausible slip: versions that agree on the common components are equal
version_compare_ignoring_length(v1, v2) ==
    LET ver1 == SplitOn(v1, ".")
        ver2 == SplitOn(v2, ".")
        n    == Min(Len(ver1), Len(ver2))
    IN  VersionLoop(SubSeq(ver1, 1, n), SubSeq(ver2, 1, n), 1)

version_compare(v1, v2) ==
    VersionLoop(SplitOn(v1, "."), SplitOn(v2, "."), 1)

\* the versions of the docstring and the tests, and a few around them
NamedVersions ==
    { <<"1", ".", "7", ".", "0">>, <<"2">>, <<"2", ".", "3", ".", "1">>,
      <<"2", ".", "1">>, <<"1", ".", "2">>, <<"1", ".", "2", ".", "0">>,
      <<"1", ".", "1", "0">>, <<"1", ".", "9">> }

Versions == NamedVersions \cup StringsUpTo({".", "1", "2"}, MaxVerLen)

VerIdle ==
    /\ ver_pc = "idle"
    /\ version1 = <<>>
    /\ version2 = <<>>
    /\ ver_ret = 0

VerInit ==
    /\ ver_pc = "call"
    /\ version1 \in Versions
    /\ version2 \in Versions
    /\ ver_ret = 0

VersionCompare ==
    /\ ver_pc = "call"
    /\ ver_ret' = version_compare(version1, version2)
    /\ ver_pc' = "done"
    /\ UNCHANGED <<version1, version2>>
    /\ UNCHANGED <<flagsVars, subVars, pcVars, pkgVars, flVars>>
    /\ UNCHANGED <<bgVars, genVars, outVars, serVars, pvVars>>

---------------------------------------------------------------------------
(* __process_flags                                                         *)

\* a Python str value (as opposed to None)
Str(s) == [kind |-> "str", s |-> s]

\* the body of the for loop: what one field of astr.split(" ") appends
ProcessOpt(field, strip) ==
    LET opt == Strip(field)
    IN  IF strip # None /\ StartsWith(opt, strip.s)
        THEN IF opt # strip.s THEN <<DropFirst(opt, Len(strip.s))>> ELSE <<>>
        ELSE <<opt>>

RECURSIVE ProcessFields(_, _)
ProcessFields(fields, strip) ==
    IF fields = <<>> THEN <<>>
    ELSE ProcessOpt(Head(fields), strip) \o ProcessFields(Tail(fields), strip)

\* [s.strip() for s in result if s.strip()]
StripNonEmpty(result) ==
    LET kept == SelectSeq(result, LAMBDA s : Strip(s) # <<>>)
    IN  [i \in 1..Len(kept) |-> Strip(kept[i])]

process_flags(a, strip) ==
    StripNonEmpty(ProcessFields(SplitOn(a, " "), strip))

FlagResponses == StringsUpTo({" ", "\t", "\n", "-", "l", "a"}, MaxFlagLen)

StripOptions == {None, Str(<<"-", "l">>), Str(<<"-", "L">>)}

FlagsIdle ==
    /\ flags_pc = "idle"
    /\ astr = <<>>
    /\ strip_option = None
    /\ flags_ret = <<>>

FlagsInit ==
    /\ flags_pc = "call"
    /\ astr \in FlagResponses
    /\ strip_option \in StripOptions
    /\ flags_ret = <<>>

ProcessFlags ==
    /\ flags_pc = "call"
    /\ flags_ret' = process_flags(astr, strip_option)
    /\ flags_pc' = "done"
    /\ UNCHANGED <<astr, strip_option>>
    /\ UNCHANGED <<verVars, subVars, pcVars, pkgVars, flVars>>
    /\ UNCHANGED <<bgVars, genVars, outVars, serVars, pvVars>>

---------------------------------------------------------------------------
(* sub_variables                                                           *)

Letters ==
    { "a", "b", "c", "d", "e", "f", "g", "h", "i", "j", "k", "l", "m", "n",
      "o", "p", "q", "r", "s", "t", "u", "v", "w", "x", "y", "z",
      "A", "B", "C", "D", "E", "F", "G", "H", "I", "J", "K", "L", "M", "N",
      "O", "P", "Q", "R", "S", "T", "U", "V", "W", "X", "Y", "Z" }

\* the character class [a-zA-Z._-]
NameChar(c) == c \in Letters \cup {".", "_", "-"}

\* the end of the longest run of name characters of s that starts at i
RECURSIVE NameEnd(_, _)
NameEnd(s, i) ==
    IF i <= Len(s) /\ NameChar(s[i]) THEN NameEnd(s, i + 1) ELSE i - 1

\* regex.match at position i for \$\{([a-zA-Z._-]*)\}: the index of the
\* closing brace, or 0 when there is no match at i
TokenEndAt(s, i) ==
    IF i + 2 <= Len(s) /\ s[i] = "$" /\ s[i + 1] = "{"
    THEN LET e == NameEnd(s, i + 2)
         IN  IF e + 1 <= Len(s) /\ s[e + 1] = "}" THEN e + 1 ELSE 0
    ELSE 0

\* regex.search(value): is there a token at all
HasToken(s) == \E i \in 1..Len(s) : TokenEndAt(s, i) # 0

\* the start of the leftmost token of s
TokenStart(s) ==
    CHOOSE i \in 1..Len(s) :
        TokenEndAt(s, i) # 0 /\ \A j \in 1..(i - 1) : TokenEndAt(s, j) = 0

\* match.group(1) of the leftmost token
TokenName(s) ==
    LET i == TokenStart(s) IN SubSeq(s, i + 2, TokenEndAt(s, i) - 1)

\* does the pattern "\$\{%s\}" % var match s at i: var is pasted into the
\* pattern unescaped, so a "." of var matches any character but a newline
PatternAt(s, i, var) ==
    /\ i + Len(var) + 2 <= Len(s)
    /\ s[i] = "$"
    /\ s[i + 1] = "{"
    /\ \A k \in 1..Len(var) :
          IF var[k] = "." THEN s[i + 1 + k] # "\n" ELSE s[i + 1 + k] = var[k]
    /\ s[i + 2 + Len(var)] = "}"

RECURSIVE ReSubFrom(_, _, _, _)
\* re.sub("\$\{%s\}" % var, val, s) from position i on: every match,
\* left to right and not overlapping, is replaced by val
ReSubFrom(s, i, var, val) ==
    IF i > Len(s) THEN <<>>
    ELSE IF PatternAt(s, i, var)
    THEN val \o ReSubFrom(s, i + Len(var) + 3, var, val)
    ELSE <<s[i]>> \o ReSubFrom(s, i + 1, var, val)

\* val is pasted as it stands: re.sub reads a backslash of val as an escape,
\* and the values of the model hold none
ReSub(s, var, val) == ReSubFrom(s, 1, var, val)

\* one iteration of the while loop of sub_variables
SubOnce(v, env) ==
    LET var == TokenName(v)
        val == IF var \in DOMAIN env THEN env[var] ELSE <<>>
    IN  ReSub(v, var, val)

\* a call that does not return
Hang == [kind |-> "hang"]

RECURSIVE SubRun(_, _, _)
\* the while loop of sub_variables run to its end: the str returned, or Hang
SubRun(v, env, fuel) ==
    IF ~HasToken(v) THEN Str(v)
    ELSE IF fuel = 0 THEN Hang
    ELSE LET next == SubOnce(v, env) IN SubRun(next, env, fuel - 1)

sub_variables(v, env) == SubRun(v, env, MaxSubIter)

\* "${name}"
Tok(name) == <<"$", "{">> \o name \o <<"}">>

N_a_dot_b  == <<"a", ".", "b">>
N_a_dash_b == <<"a", "-", "b">>
N_prefix == <<"p", "r", "e", "f", "i", "x">>
N_exec_prefix == <<"e", "x", "e", "c", "_">> \o N_prefix
N_libdir == <<"l", "i", "b", "d", "i", "r">>
N_includedir == <<"i", "n", "c", "l", "u", "d", "e", "d", "i", "r">>
N_content == <<"c", "o", "n", "t", "e", "n", "t">>
S_lib == <<"/", "l", "i", "b">>
S_include == <<"/", "i", "n", "c", "l", "u", "d", "e">>
S_usr_local == <<"/", "u", "s", "r", "/", "l", "o", "c", "a", "l">>

\* the pieces generated values are made of
SubNames == {N_a_dot_b, N_a_dash_b}
SubPieces == {<<"x">>} \cup {Tok(n) : n \in SubNames}

RECURSIVE PieceStrings(_)
\* the concatenations of at most n pieces
PieceStrings(n) ==
    IF n = 0 THEN {<<>>}
    ELSE LET prev == PieceStrings(n - 1)
         IN  prev \cup {s \o q : s \in prev, q \in SubPieces}

SubValues == PieceStrings(MaxSubPieces)
SubEnvs == UNION {[D -> PieceStrings(2)] : D \in SUBSET SubNames}

\* the call of test_read_pc_as_pkg_config
TestValue == Tok(N_exec_prefix) \o S_lib
TestEnv ==
    (N_prefix :> S_usr_local) @@ (N_exec_prefix :> Tok(N_prefix))
    @@ (N_libdir :> (Tok(N_exec_prefix) \o S_lib))
    @@ (N_includedir :> (Tok(N_prefix) \o S_include))

SubIdle ==
    /\ sub_pc = "idle"
    /\ value = <<>>
    /\ value0 = <<>>
    /\ variables = <<>>

SubInit ==
    /\ sub_pc = "loop"
    /\ \/ value0 \in SubValues /\ variables \in SubEnvs
       \/ value0 = TestValue /\ variables = TestEnv
    /\ value = value0

\* while match: ... value = re.sub(...); match = regex.search(value)
SubStep ==
    /\ sub_pc = "loop"
    /\ HasToken(value)
    /\ Len(SubOnce(value, variables)) <= MaxSubLen
    /\ value' = SubOnce(value, variables)
    /\ UNCHANGED <<sub_pc, variables, value0>>
    /\ UNCHANGED <<verVars, flagsVars, pcVars, pkgVars, flVars>>
    /\ UNCHANGED <<bgVars, genVars, outVars, serVars, pvVars>>

\* return value
SubReturn ==
    /\ sub_pc = "loop"
    /\ ~HasToken(value)
    /\ sub_pc' = "done"
    /\ UNCHANGED <<value, variables, value0>>
    /\ UNCHANGED <<verVars, flagsVars, pcVars, pkgVars, flVars>>
    /\ UNCHANGED <<bgVars, genVars, outVars, serVars, pvVars>>

---------------------------------------------------------------------------
(* pc_read, __pc_variables, __pc_extract_flag, read_pc_as_pkg_config       *)

\* a Python dict, a raised exception
Dict(d) == [kind |-> "dict", d |-> d]
Raise(exc) == [kind |-> "raise", exc |-> exc]

\* a file that exists, with its lines (line ends removed)
File(lines) == [kind |-> "file", lines |-> lines]

K_Libs == <<"L", "i", "b", "s">>
K_Cflags == <<"C", "f", "l", "a", "g", "s">>

\* the first index from i on that holds no whitespace
RECURSIVE SkipSpace(_, _)
SkipSpace(s, i) ==
    IF i <= Len(s) /\ IsSpace(s[i]) THEN SkipSpace(s, i + 1) ELSE i

\* regex.match(line) for ^([a-zA-Z._-]*)\s*([=:])\s*(.*)$ : the groups, or
\* None when the line does not match
PcMatch(line) ==
    LET k == NameEnd(line, 1)
        j == SkipSpace(line, k + 1)
    IN  IF j <= Len(line) /\ line[j] \in {"=", ":"}
        THEN [kind |-> "match", g1 |-> SubSeq(line, 1, k), g2 |-> line[j],
              g3 |-> SubSeq(line, SkipSpace(line, j + 1), Len(line))]
        ELSE None

\* the body of the for loop of pc_read on one line
PcReadLine(result, raw) ==
    LET line == Strip(raw)
        m == PcMatch(line)
    IN  IF line # <<>> /\ ~StartsWith(line, <<"#">>) /\ m # None
        THEN IF m.g2 = ":"
             THEN [result EXCEPT !.fields = (m.g1 :> m.g3) @@ @]
             ELSE [result EXCEPT !.variables = (m.g1 :> m.g3) @@ @]
        ELSE result

RECURSIVE PcReadLines(_, _)
PcReadLines(result, lines) ==
    IF lines = <<>> THEN result
    ELSE LET next == PcReadLine(result, Head(lines))
         IN  PcReadLines(next, Tail(lines))

\* pc_read(filename): None for a missing file, else the top-level fields
\* (those set with ":") and the variables (those set with "=")
pc_read(file) ==
    IF file = None THEN None
    ELSE PcReadLines([kind |-> "pc", fields |-> <<>>, variables |-> <<>>],
                     file.lines)

RECURSIVE PcVariablesLoop(_, _)
\* the for loop of __pc_variables over the keys in iteration order: each
\* entry is rewritten in place against the mapping as it then stands
PcVariablesLoop(env, order) ==
    IF order = <<>> THEN Dict(env)
    ELSE LET key == Head(order)
             r == sub_variables(env[key], env)
         IN  IF r = Hang THEN Hang
             ELSE LET next == [env EXCEPT ![key] = r.s]
                  IN  PcVariablesLoop(next, Tail(order))

\* the orders in which a dict with these keys may be iterated
Orders(keys) ==
    {o \in [1..Cardinality(keys) -> keys] :
        \A i, j \in 1..Cardinality(keys) : i # j => o[i] # o[j]}

\* i.startswith(v) for no v of excludes (the reduce of __pc_extract_flag)
NotExcluded(tok, excludes) == \A v \in excludes : ~StartsWith(tok, v)

\* sub_variables over a list: the list of its results (Str or Hang)
SubAll(toks, env) == [k \in 1..Len(toks) |-> sub_variables(toks[k], env)]

\* a list of Str as the list of their strings
Strs(rs) == [k \in 1..Len(rs) |-> rs[k].s]

\* one of the results is Hang
AnyHang(rs) == \E k \in 1..Len(rs) : rs[k] = Hang

\* a plausible slip: only the first of the excluded prefixes is tested
PcExtractFlagFirstExclude(a, env, include, excludes) ==
    IF include # None /\ include.s # <<>>
    THEN LET sel == SelectSeq(SplitWs(a), LAMBDA i : StartsWith(i, include.s))
         IN  SubAll([k \in 1..Len(sel) |-> DropFirst(sel[k], Len(include.s))],
                    env)
    ELSE SubAll(SelectSeq(SplitWs(a),
                          LAMBDA i : ~StartsWith(i, Head(excludes))), env)

\* __pc_extract_flag(astr, variables, include, excludes); excludes is a list,
\* and the list returned holds the results of sub_variables
PcExtractFlag(a, env, include, excludes) ==
    IF include # None /\ include.s # <<>>
    THEN LET sel == SelectSeq(SplitWs(a), LAMBDA i : StartsWith(i, include.s))
         IN  SubAll([k \in 1..Len(sel) |-> DropFirst(sel[k], Len(include.s))],
                    env)
    ELSE SubAll(SelectSeq(SplitWs(a),
                          LAMBDA i : NotExcluded(i, {excludes[k] :
                                                 k \in 1..Len(excludes)})),
                env)

Opt_L == <<"-", "L">>
Opt_l == <<"-", "l">>
Opt_I == <<"-", "I">>

\* read_pc_as_pkg_config(filename), the variables being iterated in order:
\* None, a dict, KeyError for a file without a Libs or a Cflags line, Hang
read_pc_as_pkg_config(file, order) ==
    LET f == pc_read(file)
    IN  IF f = None THEN None
        ELSE LET vs == PcVariablesLoop(f.variables, order)
             IN  IF vs = Hang THEN Hang
                 ELSE IF K_Libs \notin DOMAIN f.fields THEN Raise("KeyError")
                 ELSE LET libs == f.fields[K_Libs]
                          library_dirs ==
                              PcExtractFlag(libs, vs.d, Str(Opt_L), <<>>)
                          libraries ==
                              PcExtractFlag(libs, vs.d, Str(Opt_l), <<>>)
                          ldflags ==
                              PcExtractFlag(libs, vs.d, None, <<Opt_l, Opt_L>>)
                      IN  IF AnyHang(library_dirs \o libraries \o ldflags)
                          THEN Hang
                          ELSE IF K_Cflags \notin DOMAIN f.fields
                          THEN Raise("KeyError")
                          ELSE LET cfl == f.fields[K_Cflags]
                                   include_dirs ==
                                       PcExtractFlag(cfl, vs.d, Str(Opt_I), <<>>)
                                   cflags ==
                                       PcExtractFlag(cfl, vs.d, None, <<Opt_I>>)
                               IN  IF AnyHang(include_dirs \o cflags)
                                   THEN Hang
                                   ELSE Dict([variables |-> vs.d,
                                              library_dirs |-> Strs(library_dirs),
                                              libraries |-> Strs(libraries),
                                              ldflags |-> Strs(ldflags),
                                              include_dirs |-> Strs(include_dirs),
                                              cflags |-> Strs(cflags)])

\* 'p=/x'
L_p ==
    <<"p", "=", "/", "x">>
\* 'l = ${p}/l'
L_l ==
    <<"l", " ", "=", " ", "$", "{", "p", "}", "/", "l">>
\* 'Libs: -L${l} -la -x'
L_Libs ==
    <<"L", "i", "b", "s", ":", " ", "-", "L", "$", "{", "l", "}", " ",
      "-", "l", "a", " ", "-", "x">>
\* 'Libs: -la<TAB>-L/x'
L_LibsTab ==
    <<"L", "i", "b", "s", ":", " ", "-", "l", "a", "\t", "-", "L", "/",
      "x">>
\* 'Cflags:-I${p}/i -D'
L_Cflags ==
    <<"C", "f", "l", "a", "g", "s", ":", "-", "I", "$", "{", "p", "}",
      "/", "i", " ", "-", "D">>
\* '# Libs: -lc'
L_comment ==
    <<"#", " ", "L", "i", "b", "s", ":", " ", "-", "l", "c">>
\* 'c=${c}'
L_c ==
    <<"c", "=", "$", "{", "c", "}">>
\* ' ?'
L_junk ==
    <<" ", "?">>

\* the lines generated .pc files are made of
PcLinePool ==
    {L_p, L_l, L_Libs, L_LibsTab, L_Cflags, L_comment, L_c, L_junk}

\* the fixture pc_file of autodetect_test.py, line by line
\* 'prefix=/usr/local'
T_prefix ==
    <<"p", "r", "e", "f", "i", "x", "=", "/", "u", "s", "r", "/",
      "l", "o", "c", "a", "l">>
\* 'exec_prefix=${prefix}'
T_exec_prefix ==
    <<"e", "x", "e", "c", "_", "p", "r", "e", "f", "i", "x", "=",
      "$", "{", "p", "r", "e", "f", "i", "x", "}">>
\* 'libdir=${exec_prefix}/lib'
T_libdir ==
    <<"l", "i", "b", "d", "i", "r", "=", "$", "{", "e", "x", "e",
      "c", "_", "p", "r", "e", "f", "i", "x", "}", "/", "l", "i",
      "b">>
\* 'includedir=${prefix}/include'
T_includedir ==
    <<"i", "n", "c", "l", "u", "d", "e", "d", "i", "r", "=", "$",
      "{", "p", "r", "e", "f", "i", "x", "}", "/", "i", "n", "c",
      "l", "u", "d", "e">>
\* 'Name: libarchive'
T_Name ==
    <<"N", "a", "m", "e", ":", " ", "l", "i", "b", "a", "r", "c",
      "h", "i", "v", "e">>
\* 'Cflags: -I${includedir}'
T_Cflags ==
    <<"C", "f", "l", "a", "g", "s", ":", " ", "-", "I", "$", "{",
      "i", "n", "c", "l", "u", "d", "e", "d", "i", "r", "}">>
\* 'Libs: -L${libdir} -larchive'
T_Libs ==
    <<"L", "i", "b", "s", ":", " ", "-", "L", "$", "{", "l", "i",
      "b", "d", "i", "r", "}", " ", "-", "l", "a", "r", "c", "h",
      "i", "v", "e">>
\* 'Libs.private: -lexpat -llzma -lbz2 -lz '
T_Libs_private ==
    <<"L", "i", "b", "s", ".", "p", "r", "i", "v", "a", "t", "e",
      ":", " ", "-", "l", "e", "x", "p", "a", "t", " ", "-", "l",
      "l", "z", "m", "a", " ", "-", "l", "b", "z", "2", " ", "-",
      "l", "z", " ">>

TestPcFile ==
    File(<<<<>>, T_prefix, T_exec_prefix, T_libdir, T_includedir, <<>>,
           T_Name, T_Cflags, T_Libs, T_Libs_private>>)

\* the fixture pc_result of autodetect_test.py
S_archive ==
    <<"a", "r", "c", "h", "i", "v", "e">>
TestPcResult ==
    Dict([variables |->
              (N_prefix :> S_usr_local) @@ (N_exec_prefix :> S_usr_local)
              @@ (N_libdir :> (S_usr_local \o S_lib))
              @@ (N_includedir :> (S_usr_local \o S_include)),
          library_dirs |-> <<S_usr_local \o S_lib>>,
          libraries |-> <<S_archive>>,
          ldflags |-> <<>>,
          include_dirs |-> <<S_usr_local \o S_include>>,
          cflags |-> <<>>])

PcFiles ==
    {File(ls) : ls \in StringsUpTo(PcLinePool, MaxPcLines)} \cup {TestPcFile}

PcIdle ==
    /\ pc_pc = "idle"
    /\ pc_file = None
    /\ pc_order = <<>>
    /\ pc_ret = None

PcInit ==
    /\ pc_pc = "call"
    /\ pc_file \in PcFiles \cup {None}
    /\ pc_order = <<>>
    /\ pc_ret = None

\* a call of read_pc_as_pkg_config that returns or raises
ReadPc ==
    /\ pc_pc = "call"
    /\ \E order \in Orders(IF pc_file = None THEN {}
                           ELSE DOMAIN pc_read(pc_file).variables) :
          \E result \in {read_pc_as_pkg_config(pc_file, order)} :
             /\ result # Hang
             /\ pc_order' = order
             /\ pc_ret' = result
    /\ pc_pc' = "done"
    /\ UNCHANGED pc_file
    /\ UNCHANGED <<verVars, flagsVars, subVars, pkgVars, flVars>>
    /\ UNCHANGED <<bgVars, genVars, outVars, serVars, pvVars>>

\* a call of read_pc_as_pkg_config caught in a substitution that never ends
ReadPcHang ==
    /\ pc_pc = "call"
    /\ \E order \in Orders(IF pc_file = None THEN {}
                           ELSE DOMAIN pc_read(pc_file).variables) :
          /\ read_pc_as_pkg_config(pc_file, order) = Hang
          /\ pc_order' = order
    /\ pc_pc' = "hang"
    /\ UNCHANGED <<pc_file, pc_ret>>
    /\ UNCHANGED <<verVars, flagsVars, subVars, pkgVars, flVars>>
    /\ UNCHANGED <<bgVars, genVars, outVars, serVars, pvVars>>

---------------------------------------------------------------------------
(* __pc_variables, one iteration of its for loop at a time                 *)

\* most variables of a generated mapping
MaxPvVars == 3

N_c == <<"c">>
N_d == <<"d">>
N_e == <<"e">>

\* the names the keys of a generated mapping are taken from, and the names
\* its values may refer to (a-b is never a key: a reference to it is a
\* reference to an undefined variable)
PvKeyNames == <<N_a_dot_b, N_c, N_d, N_e>>
PvKeys == {PvKeyNames[i] : i \in 1..MaxPvVars}
PvRefs == PvKeys \cup {N_a_dash_b}

\* the raw values of a generated mapping: empty, a literal, one reference,
\* references to two variables
PvValues ==
    {<<>>, <<"x">>} \cup {Tok(n) : n \in PvRefs}
        \cup UNION {{Tok(n) \o Tok(m) : m \in PvRefs \ {n}} : n \in PvRefs}

\* the names of the ${name} tokens of s
Refs(s) == {SubSeq(s, i + 2, TokenEndAt(s, i) - 1) :
                i \in {j \in 1..Len(s) : TokenEndAt(s, j) # 0}}

RECURSIVE ReachFrom(_, _, _)
\* the names reachable from names through at most k definitions
ReachFrom(names, env, k) ==
    IF k = 0 THEN names
    ELSE LET next == names \cup
                         UNION {Refs(env[n]) : n \in names \cap DOMAIN env}
         IN  ReachFrom(next, env, k - 1)

\* the definition of n refers, directly or through others, back to n
OnCycle(n, env) ==
    /\ n \in DOMAIN env
    /\ n \in ReachFrom(Refs(env[n]), env, Cardinality(DOMAIN env))

\* no variable reachable from the tokens of s is on a cycle
Acyclic(s, env) ==
    \A n \in ReachFrom(Refs(s), env, Cardinality(DOMAIN env)) :
        ~OnCycle(n, env)

\* the variables mappings pc_read hands over: the references of a value
\* that names two variables form no cycle, those of the other values may
\* (the loop of sub_variables then runs on without the value growing)
PvMappings(keys) ==
    UNION {{m \in [D -> PvValues] :
               \A k \in D : Len(m[k]) > Len(Tok(N_a_dot_b))
                                => Acyclic(m[k], m)} :
           D \in SUBSET keys}

\* the mapping of the fixture pc_file of autodetect_test.py
PvTestMapping == TestEnv

PvIdle ==
    /\ pv_pc = "idle"
    /\ pv_raw = <<>>
    /\ pv_variables = <<>>
    /\ pv_order = <<>>
    /\ pv_i = 0

\* the call __pc_variables(variables): iteritems() walks the dict in an order
\* fixed by the dict, any permutation of its keys
PvInit ==
    /\ pv_pc = "loop"
    /\ pv_raw \in PvMappings(PvKeys) \cup {PvTestMapping}
    /\ pv_variables = pv_raw
    /\ pv_order \in Orders(DOMAIN pv_raw)
    /\ pv_i = 1

\* variables[key] = AutodetectHelper.sub_variables(value, variables)
PvIter ==
    /\ pv_pc = "loop"
    /\ pv_i <= Len(pv_order)
    /\ \E r \in {sub_variables(pv_variables[pv_order[pv_i]], pv_variables)} :
          /\ r # Hang
          /\ pv_variables' = [pv_variables EXCEPT ![pv_order[pv_i]] = r.s]
    /\ pv_i' = pv_i + 1
    /\ UNCHANGED <<pv_pc, pv_raw, pv_order>>
    /\ UNCHANGED <<verVars, flagsVars, subVars, pcVars, pkgVars, flVars>>
    /\ UNCHANGED <<bgVars, genVars, outVars, serVars>>

\* an iteration whose call of sub_variables never returns
PvHang ==
    /\ pv_pc = "loop"
    /\ pv_i <= Len(pv_order)
    /\ sub_variables(pv_variables[pv_order[pv_i]], pv_variables) = Hang
    /\ pv_pc' = "hang"
    /\ UNCHANGED <<pv_raw, pv_variables, pv_order, pv_i>>
    /\ UNCHANGED <<verVars, flagsVars, subVars, pcVars, pkgVars, flVars>>
    /\ UNCHANGED <<bgVars, genVars, outVars, serVars>>

\* return variables
PvReturn ==
    /\ pv_pc = "loop"
    /\ pv_i > Len(pv_order)
    /\ pv_pc' = "done"
    /\ UNCHANGED <<pv_raw, pv_variables, pv_order, pv_i>>
    /\ UNCHANGED <<verVars, flagsVars, subVars, pcVars, pkgVars, flVars>>
    /\ UNCHANGED <<bgVars, genVars, outVars, serVars>>

---------------------------------------------------------------------------
(* pkg_config                                                              *)

\* the version arguments of a call: each None or a str
PkgArgs(atleast, exact, max) ==
    [atleast_version |-> atleast, exact_version |-> exact,
     max_version |-> max]

NoVersions == PkgArgs(None, None, None)

\* the option of the existence test, and the version pasted into it
PkgTestOption(args) ==
    IF args.exact_version # None
    THEN [opt |-> "--exact-version", arg |-> args.exact_version]
    ELSE IF args.atleast_version # None
    THEN [opt |-> "--atleast-version", arg |-> args.atleast_version]
    ELSE IF args.max_version # None
    THEN [opt |-> "--max-version", arg |-> args.max_version]
    ELSE [opt |-> "--exists", arg |-> None]

\* a plausible slip: the second check is skipped when an exact version is given
PkgNeedsMaxCheckUnlessExact(args) ==
    /\ args.exact_version = None
    /\ args.atleast_version # None
    /\ args.max_version # None

\* if atleast_version is not None and max_version is not None
PkgNeedsMaxCheck(args) ==
    args.atleast_version # None /\ args.max_version # None

\* the five flag queries, in the order issued: the option, the key of the
\* result it fills, the prefix stripped from its tokens
PkgQueries ==
    << [opt |-> "--libs-only-L", key |-> "library_dirs", strip |-> Str(Opt_L)],
       [opt |-> "--libs-only-l", key |-> "libraries", strip |-> Str(Opt_l)],
       [opt |-> "--libs-only-other", key |-> "ldflags", strip |-> None],
       [opt |-> "--cflags-only-I", key |-> "include_dirs", strip |-> Str(Opt_I)],
       [opt |-> "--cflags-only-other", key |-> "cflags", strip |-> None] >>

\* s.splitlines()
SplitLines(s) ==
    IF s = <<>> THEN <<>>
    ELSE LET parts == SplitOn(s, "\n")
         IN  IF parts[Len(parts)] = <<>> THEN SubSeq(parts, 1, Len(parts) - 1)
             ELSE parts

\* what the tool may print for a flag query
PkgFlagOutputs ==
    { <<"\n">>,
      <<"-", "L", "/", "x", "\n">>,
      <<"-", "l", "a", " ", "-", "I", "/", "x", "\n">> }

\* what the tool may print for --print-variables and for --variable=...
PkgVariableLists == { <<>>, <<"p", "\n">>, <<"p", "\n", "l", "\n">> }
PkgVariableOutputs == { <<"/", "x", "\n">> }

PkgVersions == { Str(<<"1">>) }

PkgIdle ==
    /\ pkg_pc = "idle"
    /\ pkg_args = NoVersions
    /\ pkg_log = <<>>
    /\ pkg_todo = <<>>
    /\ pkg_result = <<>>
    /\ pkg_ret = None

PkgInit ==
    /\ pkg_pc = "which"
    /\ pkg_args \in {PkgArgs(a, e, m) : a, e, m \in PkgVersions \cup {None}}
    /\ pkg_log = <<>>
    /\ pkg_todo = <<>>
    /\ pkg_result = <<>>
    /\ pkg_ret = None

\* pkg_config = which("pkg-config"); if pkg_config is None: return None
PkgWhich ==
    /\ pkg_pc = "which"
    /\ \E found \in BOOLEAN :
          IF found
          THEN pkg_pc' = "test" /\ UNCHANGED pkg_ret
          ELSE pkg_pc' = "done" /\ pkg_ret' = None
    /\ UNCHANGED <<pkg_args, pkg_log, pkg_todo, pkg_result>>
    /\ UNCHANGED <<verVars, flagsVars, subVars, pcVars, flVars>>
    /\ UNCHANGED <<bgVars, genVars, outVars, serVars, pvVars>>

\* if subprocess.call([pkg_config, test, name]) != 0: return None
PkgTest ==
    /\ pkg_pc = "test"
    /\ \E rc \in {0, 1} :
          /\ pkg_log' = Append(pkg_log, [call |-> "check", rc |-> rc,
                                         opt |-> PkgTestOption(pkg_args).opt,
                                         arg |-> PkgTestOption(pkg_args).arg])
          /\ IF rc # 0 THEN pkg_pc' = "done" /\ pkg_ret' = None
             ELSE /\ pkg_pc' = IF PkgNeedsMaxCheck(pkg_args) THEN "max_check"
                               ELSE "query"
                  /\ UNCHANGED pkg_ret
    /\ UNCHANGED <<pkg_args, pkg_todo, pkg_result>>
    /\ UNCHANGED <<verVars, flagsVars, subVars, pcVars, flVars>>
    /\ UNCHANGED <<bgVars, genVars, outVars, serVars, pvVars>>

\* the check of --max-version when both atleast and max were provided
PkgMaxCheck ==
    /\ pkg_pc = "max_check"
    /\ \E rc \in {0, 1} :
          /\ pkg_log' = Append(pkg_log, [call |-> "check", rc |-> rc,
                                         opt |-> "--max-version",
                                         arg |-> pkg_args.max_version])
          /\ IF rc # 0 THEN pkg_pc' = "done" /\ pkg_ret' = None
             ELSE pkg_pc' = "query" /\ UNCHANGED pkg_ret
    /\ UNCHANGED <<pkg_args, pkg_todo, pkg_result>>
    /\ UNCHANGED <<verVars, flagsVars, subVars, pcVars, flVars>>
    /\ UNCHANGED <<bgVars, genVars, outVars, serVars, pvVars>>

\* result[key] = __process_flags(subprocess.check_output([...]), prefix):
\* the next of the five queries; check_output raises when the tool fails
PkgQuery ==
    /\ pkg_pc = "query"
    /\ LET q == PkgQueries[Cardinality(DOMAIN pkg_result) + 1]
       IN  \/ /\ pkg_log' = Append(pkg_log, [call |-> "query", rc |-> 1,
                                             opt |-> q.opt, arg |-> None])
              /\ pkg_pc' = "done"
              /\ pkg_ret' = Raise("CalledProcessError")
              /\ UNCHANGED pkg_result
           \/ \E out \in PkgFlagOutputs :
                 /\ pkg_log' = Append(pkg_log, [call |-> "query", rc |-> 0,
                                                opt |-> q.opt, arg |-> None])
                 /\ pkg_result' =
                        (q.key :> process_flags(out, q.strip)) @@ pkg_result
                 /\ pkg_pc' = IF Cardinality(DOMAIN pkg_result) + 1
                                    = Len(PkgQueries)
                              THEN "print_variables" ELSE "query"
                 /\ UNCHANGED pkg_ret
    /\ UNCHANGED <<pkg_args, pkg_todo>>
    /\ UNCHANGED <<verVars, flagsVars, subVars, pcVars, flVars>>
    /\ UNCHANGED <<bgVars, genVars, outVars, serVars, pvVars>>

\* variables = check_output([pkg_config, "--print-variables", name]);
\* result["variables"] = {}
PkgPrintVariables ==
    /\ pkg_pc = "print_variables"
    /\ \/ /\ pkg_log' = Append(pkg_log, [call |-> "query", rc |-> 1,
                                         opt |-> "--print-variables",
                                         arg |-> None])
          /\ pkg_pc' = "done"
          /\ pkg_ret' = Raise("CalledProcessError")
          /\ UNCHANGED <<pkg_todo, pkg_result>>
       \/ \E out \in PkgVariableLists :
             /\ pkg_log' = Append(pkg_log, [call |-> "query", rc |-> 0,
                                            opt |-> "--print-variables",
                                            arg |-> None])
             /\ pkg_todo' = SplitLines(out)
             /\ pkg_result' = ("variables" :> <<>>) @@ pkg_result
             /\ pkg_pc' = "variable"
             /\ UNCHANGED pkg_ret
    /\ UNCHANGED pkg_args
    /\ UNCHANGED <<verVars, flagsVars, subVars, pcVars, flVars>>
    /\ UNCHANGED <<bgVars, genVars, outVars, serVars, pvVars>>

\* for var in variables.splitlines(): result["variables"][var] =
\*   check_output([pkg_config, "--variable=%s" % var, name]).strip()
PkgVariable ==
    /\ pkg_pc = "variable"
    /\ pkg_todo # <<>>
    /\ \/ /\ pkg_log' = Append(pkg_log, [call |-> "query", rc |-> 1,
                                         opt |-> "--variable",
                                         arg |-> Str(Head(pkg_todo))])
          /\ pkg_pc' = "done"
          /\ pkg_ret' = Raise("CalledProcessError")
          /\ UNCHANGED <<pkg_todo, pkg_result>>
       \/ \E out \in PkgVariableOutputs :
             /\ pkg_log' = Append(pkg_log, [call |-> "query", rc |-> 0,
                                            opt |-> "--variable",
                                            arg |-> Str(Head(pkg_todo))])
             /\ pkg_result' =
                    [pkg_result EXCEPT
                        !["variables"] = (Head(pkg_todo) :> Strip(out)) @@ @]
             /\ pkg_todo' = Tail(pkg_todo)
             /\ UNCHANGED <<pkg_pc, pkg_ret>>
    /\ UNCHANGED pkg_args
    /\ UNCHANGED <<verVars, flagsVars, subVars, pcVars, flVars>>
    /\ UNCHANGED <<bgVars, genVars, outVars, serVars, pvVars>>

\* return result
PkgReturn ==
    /\ pkg_pc = "variable"
    /\ pkg_todo = <<>>
    /\ pkg_pc' = "done"
    /\ pkg_ret' = Dict(pkg_result)
    /\ UNCHANGED <<pkg_args, pkg_log, pkg_todo, pkg_result>>
    /\ UNCHANGED <<verVars, flagsVars, subVars, pcVars, flVars>>
    /\ UNCHANGED <<bgVars, genVars, outVars, serVars, pvVars>>

---------------------------------------------------------------------------
(* brew_prefix, port_content, find_library                                 *)

\* a Python list, a function object
List(l) == [kind |-> "list", l |-> l]
Lambda == [kind |-> "function"]

\* a plausible slip: "is not None" where the code tests the value itself
TruthyNotNone(v) == v # None

\* the truth value of v in "if v:": None, an empty str, list or dict are false
Truthy(v) ==
    CASE v.kind = "None" -> FALSE
      [] v.kind = "str" -> v.s # <<>>
      [] v.kind = "list" -> v.l # <<>>
      [] v.kind = "dict" -> DOMAIN v.d # {}
      [] OTHER -> TRUE

\* the builtin filter(function, iterable) of Python 2: its second argument
\* must support iteration, its first is called on every item
PyFilter(function, iterable) ==
    IF iterable.kind # "list" THEN Raise("TypeError")
    ELSE IF iterable.l = <<>> THEN List(<<>>)
    ELSE IF function.kind # "function" THEN Raise("TypeError")
    ELSE List(SelectSeq(iterable.l, LAMBDA f : EndsWith(f, <<".", "p", "c">>)))

\* what brew --prefix may print
BrewOutputs == { <<"\n">>, <<"/", "b", "\n">> }

\* brew_prefix(package): None without brew or when brew fails, else the
\* stripped output
BrewPrefixResults == {None} \cup {Str(Strip(out)) : out \in BrewOutputs}

\* what port -q contents may print
PortOutputs ==
    { <<>>,
      <<" ", "/", "f", "\n">>,
      <<" ", "/", "a", ".", "p", "c", "\n">>,
      <<" ", "/", "f", "\n", " ", "/", "a", ".", "p", "c", "\n">> }

\* [s.strip() for s in output.splitlines() if s]
PortLines(out) ==
    LET kept == SelectSeq(SplitLines(out), LAMBDA l : l # <<>>)
    IN  List([i \in 1..Len(kept) |-> Strip(kept[i])])

\* port_content(package): None without port or when port fails
PortContentResults == {None} \cup {PortLines(out) : out \in PortOutputs}

S_opt_local == <<"/", "o", "p", "t", "/", "l", "o", "c", "a", "l">>

\* the default values returned for a brew prefix without a .pc file
BrewDefault(brew_prefix) ==
    Dict([variables |->
              (N_prefix :> brew_prefix) @@ (N_exec_prefix :> brew_prefix)
              @@ (N_libdir :> (brew_prefix \o S_lib))
              @@ (N_includedir :> (brew_prefix \o S_include))])

\* the default values returned for a port without a readable .pc file
PortDefault(port_files) ==
    Dict([variables |->
              (N_content :> port_files) @@ (N_prefix :> S_opt_local)
              @@ (N_exec_prefix :> S_opt_local)
              @@ (N_libdir :> (S_opt_local \o S_lib))
              @@ (N_includedir :> (S_opt_local \o S_include))])

\* the brew branch of find_library once the .pc file under the prefix was
\* read with result: "if result is None" the default values
FindBrewResult(brew_prefix, result) ==
    IF result = None THEN BrewDefault(brew_prefix) ELSE result

\* the end of the port branch: the default values, or the result of the
\* .pc file with the content added to its variables
PortResult(port_files, result) ==
    IF result = None THEN PortDefault(port_files)
    ELSE IF result.kind # "dict" THEN result
    ELSE Dict([result.d EXCEPT !.variables = (N_content :> port_files) @@ @])

\* the port branch of find_library, the first .pc file listed being file
FindPortResult(port_files, file, order) ==
    LET pc_files == PyFilter(List(port_files), Lambda)
    IN  IF pc_files.kind = "raise" THEN pc_files
        ELSE PortResult(port_files,
                        IF Len(pc_files.l) > 0
                        THEN read_pc_as_pkg_config(file, order)
                        ELSE None)

\* find_library leaves with result: returned, raised, or never reached
FindLeave(result) ==
    /\ fl_ret' = IF result = Hang THEN fl_ret ELSE result
    /\ fl_pc' = CASE result = Hang -> "hang"
                  [] result.kind = "raise" -> "raised"
                  [] OTHER -> "done"

\* the orders in which the variables of file may be iterated
FileOrders(file) ==
    Orders(IF file = None THEN {} ELSE DOMAIN pc_read(file).variables)

FlIdle ==
    /\ fl_pc = "idle"
    /\ fl_log = <<>>
    /\ fl_brew_prefix = None
    /\ fl_port_files = None
    /\ fl_ret = None

FlInit ==
    /\ fl_pc = "start"
    /\ fl_log = <<>>
    /\ fl_brew_prefix = None
    /\ fl_port_files = None
    /\ fl_ret = None

\* result = AutodetectHelper.pkg_config(name): the call
FindPkgConfig ==
    /\ fl_pc = "start"
    /\ pkg_pc = "idle"
    /\ pkg_pc' = "which"
    /\ fl_pc' = "pkg_config"
    /\ UNCHANGED <<pkg_args, pkg_log, pkg_todo, pkg_result, pkg_ret>>
    /\ UNCHANGED <<fl_log, fl_brew_prefix, fl_port_files, fl_ret>>
    /\ UNCHANGED <<verVars, flagsVars, subVars, pcVars>>
    /\ UNCHANGED <<bgVars, genVars, outVars, serVars, pvVars>>

\* pkg_config raised: the exception leaves find_library
FindPkgConfigRaised ==
    /\ fl_pc = "pkg_config"
    /\ pkg_pc = "done"
    /\ pkg_ret.kind = "raise"
    /\ fl_log' = Append(fl_log, [tier |-> "pkg_config", out |-> pkg_ret])
    /\ fl_ret' = pkg_ret
    /\ fl_pc' = "raised"
    /\ UNCHANGED <<fl_brew_prefix, fl_port_files>>
    /\ UNCHANGED <<verVars, flagsVars, subVars, pcVars, pkgVars>>
    /\ UNCHANGED <<bgVars, genVars, outVars, serVars, pvVars>>

\* if result: return result
FindPkgConfigFound ==
    /\ fl_pc = "pkg_config"
    /\ pkg_pc = "done"
    /\ pkg_ret.kind # "raise"
    /\ Truthy(pkg_ret)
    /\ fl_log' = Append(fl_log, [tier |-> "pkg_config", out |-> pkg_ret])
    /\ fl_ret' = pkg_ret
    /\ fl_pc' = "done"
    /\ UNCHANGED <<fl_brew_prefix, fl_port_files>>
    /\ UNCHANGED <<verVars, flagsVars, subVars, pcVars, pkgVars>>
    /\ UNCHANGED <<bgVars, genVars, outVars, serVars, pvVars>>

\* brew_prefix = AutodetectHelper.brew_prefix(name)
FindBrewPrefix ==
    /\ fl_pc = "pkg_config"
    /\ pkg_pc = "done"
    /\ pkg_ret.kind # "raise"
    /\ ~Truthy(pkg_ret)
    /\ \E prefix \in BrewPrefixResults :
          /\ fl_brew_prefix' = prefix
          /\ fl_log' = Append(Append(fl_log, [tier |-> "pkg_config",
                                              out |-> pkg_ret]),
                              [tier |-> "brew_prefix", out |-> prefix])
    /\ fl_pc' = "brew"
    /\ UNCHANGED <<fl_port_files, fl_ret>>
    /\ UNCHANGED <<verVars, flagsVars, subVars, pcVars, pkgVars>>
    /\ UNCHANGED <<bgVars, genVars, outVars, serVars, pvVars>>

\* if brew_prefix: result = read_pc_as_pkg_config(...); return it, or the
\* default values when it is None
FindBrewPc ==
    /\ fl_pc = "brew"
    /\ Truthy(fl_brew_prefix)
    /\ \E file \in PcFiles \cup {None} : \E order \in FileOrders(file) :
          /\ pc_file' = file
          /\ pc_order' = order
          /\ \E result \in {read_pc_as_pkg_config(file, order)} :
                \E returned \in {FindBrewResult(fl_brew_prefix.s, result)} :
                   FindLeave(returned)
    /\ UNCHANGED <<pc_pc, pc_ret>>
    /\ UNCHANGED <<fl_log, fl_brew_prefix, fl_port_files>>
    /\ UNCHANGED <<verVars, flagsVars, subVars, pkgVars>>
    /\ UNCHANGED <<bgVars, genVars, outVars, serVars, pvVars>>

\* port_files = AutodetectHelper.port_content(name)
FindPortContent ==
    /\ fl_pc = "brew"
    /\ ~Truthy(fl_brew_prefix)
    /\ \E files \in PortContentResults :
          /\ fl_port_files' = files
          /\ fl_log' = Append(fl_log, [tier |-> "port_content", out |-> files])
    /\ fl_pc' = "port"
    /\ UNCHANGED <<fl_brew_prefix, fl_ret>>
    /\ UNCHANGED <<verVars, flagsVars, subVars, pcVars, pkgVars>>
    /\ UNCHANGED <<bgVars, genVars, outVars, serVars, pvVars>>

\* if port_files: pc_files = filter(port_files, lambda f: ...) and the rest
\* of the port branch
FindPortPc ==
    /\ fl_pc = "port"
    /\ Truthy(fl_port_files)
    /\ \E file \in PcFiles \cup {None} : \E order \in FileOrders(file) :
          /\ pc_file' = file
          /\ pc_order' = order
          /\ \E returned \in {FindPortResult(fl_port_files.l, file, order)} :
                FindLeave(returned)
    /\ UNCHANGED <<pc_pc, pc_ret>>
    /\ UNCHANGED <<fl_log, fl_brew_prefix, fl_port_files>>
    /\ UNCHANGED <<verVars, flagsVars, subVars, pkgVars>>
    /\ UNCHANGED <<bgVars, genVars, outVars, serVars, pvVars>>

\* Not found: return None
FindNotFound ==
    /\ fl_pc = "port"
    /\ ~Truthy(fl_port_files)
    /\ fl_ret' = None
    /\ fl_pc' = "done"
    /\ UNCHANGED <<fl_log, fl_brew_prefix, fl_port_files>>
    /\ UNCHANGED <<verVars, flagsVars, subVars, pcVars, pkgVars>>
    /\ UNCHANGED <<bgVars, genVars, outVars, serVars, pvVars>>

---------------------------------------------------------------------------
(* buildgen.py: BuildSerializable, BuildGeneratorLabel and the methods of  *)
(* BuildGeneratorHelper that build the graph                               *)

\* most calls made on the builders before generation
MaxCalls == 5

\* astring.replace(a, b) for single characters
Replace(s, a, b) == [i \in 1..Len(s) |-> IF s[i] = a THEN b ELSE s[i]]

N_name == <<"n", "a", "m", "e">>
N_actual == <<"a", "c", "t", "u", "a", "l">>
N_build_file == <<"b", "u", "i", "l", "d", "_", "f", "i", "l", "e">>
N_deps == <<"d", "e", "p", "s">>
S_bind == <<"b", "i", "n", "d">>
S_exports_files == <<"e", "x", "p", "o", "r", "t", "s", "_", "f", "i", "l", "e",
          "s">>

\* a BuildSerializable: its name, its first value (None when it has none)
\* and its kwargs, a dict; keys is the order in which the caller supplied
\* them, which the dict does not keep; id is the identity of the object (0
\* where it is of no interest)
Node(id, name, first, keys, kwargs) ==
    [kind |-> "node", id |-> id, name |-> name, first |-> first,
     keys |-> keys, kwargs |-> kwargs]

\* a BuildGeneratorLabel; parent is a builder, 0 for None
BuildGeneratorLabel(package, name, parent) ==
    [kind |-> "label", package |-> package, name |-> name, parent |-> parent]

\* BuildGeneratorHelper.__init__; parent is a builder, 0 for None
BuildGeneratorHelper(package, parent) ==
    [package |-> package, parent |-> parent, repositories |-> <<>>,
     rules |-> <<>>, bindings |-> <<>>, workspace |-> <<>>,
     embedded |-> <<>>, files |-> <<>>]

\* d[key] = value on a dict
DictSet(d, key, v) ==
    [k \in DOMAIN d \cup {key} |-> IF k = key THEN v ELSE d[k]]

\* self.rules.append(BuildSerializable(_name, **kwargs))
rule(bs, self, node) ==
    [bs EXCEPT ![self].rules = Append(@, node)]

\* the label rule returns
RuleLabel(bs, self, kwargs) ==
    BuildGeneratorLabel(bs[self].package, kwargs[N_name].s, bs[self].parent)

\* newname = "%s-%s" % (self.package.replace("/", "-"), name)
NewName(package, name) == Replace(package, "/", "-") \o <<"-">> \o name

\* build_file = self.package + os.path.sep + "BUILD." + name
BuildFilePath(package, name) == package \o <<"/">> \o <<"B", "U", "I", "L", "D", ".">> \o name

\* the kwargs of new_repository once name is rewritten and build_file added
RepositoryKwargs(package, kwargs) ==
    DictSet(DictSet(kwargs, N_name, Str(NewName(package, kwargs[N_name].s))),
            N_build_file, Str(BuildFilePath(package, kwargs[N_name].s)))

\* the package of the builder new_repository creates: "@" + newname
ChildPackage(package, name) == <<"@">> \o NewName(package, name)

\* new_repository: the workspace rule appended, the child builder created
\* (child is its identity) and registered under the name
new_repository(bs, self, child, node) ==
    LET name == node.kwargs[N_name].s
        made == RepositoryKwargs(bs[self].package, node.kwargs)
    IN  Append([bs EXCEPT
                   ![self].workspace =
                       Append(@, [node EXCEPT
                                     !.kwargs = made,
                                     !.keys = Append(@, N_build_file)]),
                   ![self].repositories = DictSet(@, name, child)],
               BuildGeneratorHelper(ChildPackage(bs[self].package, name),
                                    self))

\* BuildSerializable("bind", name=self.package + "/" + name,
\*                   actual=package + ":" + name)
BindRecord(self_package, package, name, id) ==
    Node(id, S_bind, None, <<N_name, N_actual>>,
         (N_name :> Str(self_package \o <<"/">> \o name))
             @@ (N_actual :> Str(package \o <<":">> \o name)))

\* a plausible slip: the record is kept as a workspace rule, not in
\* self.bindings
BindAsWorkspaceRule(bs, self, package, name, id) ==
    [bs EXCEPT ![self].workspace =
        Append(@, BindRecord(bs[self].package, package, name, id))]

\* a plausible slip: the record is stored on every call
BindAlways(bs, self, package, name, id) ==
    [bs EXCEPT ![self].bindings =
        DictSet(@, name, BindRecord(bs[self].package, package, name, id))]

\* bind: the builders afterwards; id is the identity of the record when one
\* is created
bind(bs, self, package, name, id) ==
    IF name \in DOMAIN bs[self].bindings THEN bs
    ELSE [bs EXCEPT ![self].bindings =
             DictSet(@, name,
                     BindRecord(bs[self].package, package, name, id))]

\* return "//external:%s/%s" % (self.package, name)
BindReturn(bs, self, name) ==
    <<"/", "/", "e", "x", "t", "e", "r", "n", "a", "l", ":">> \o bs[self].package \o <<"/">> \o name

\* a plausible slip: a label with a parent is written like one without
LabelTextDirect(bs, label, prefix) ==
    prefix \o <<"\"">> \o <<"/", "/">> \o label.package \o <<":">>
        \o label.name \o <<"\"">>

\* BuildGeneratorLabel.serialize without its side effect on the parent
LabelText(bs, label, prefix) ==
    IF label.parent # 0
    THEN prefix \o <<"\"">> \o BindReturn(bs, label.parent, label.name)
             \o <<"\"">>
    ELSE prefix \o <<"\"">> \o <<"/", "/">> \o label.package \o <<":">>
             \o label.name \o <<"\"">>

\* the packages of the modules, the names of rules and of repositories
TopPackages == { <<"a">>, <<"a", "/", "b">> }
RuleNames == { <<"x">>, <<"y">> }
RepositoryNames == { <<"c">>, <<"b", "-", "c">> }
RuleTypes == { <<"c", "c", "_", "l", "i", "b", "r", "a", "r", "y">> }
RepositoryTypes == { <<"n", "e", "w", "_", "l", "o", "c", "a", "l", "_", "r", "e",
          "p", "o", "s", "i", "t", "o", "r", "y">> }
EmbeddedNames == { <<"t">> }
FileNames == { <<"f">> }

\* the builders that have no parent
TopLevel(bs) == {b \in 1..Len(bs) : bs[b].parent = 0}

RECURSIVE CallCount(_, _)
\* the calls that made the first n builders and filled them
CallCount(bs, n) ==
    IF n = 0 THEN 0
    ELSE 1 + Len(bs[n].rules) + Cardinality(DOMAIN bs[n].files)
           + CallCount(bs, n - 1)

\* the calls made so far on the builders
Calls == CallCount(builders, Len(builders)) + Len(bind_log)

BgIdle ==
    /\ builders = <<>>
    /\ labels = {}
    /\ nobj = 0
    /\ bind_log = <<>>

BgInit == BgIdle

GenIdle ==
    /\ gen_pc = "idle"
    /\ gen_builder = 0
    /\ gen_done = {}
    /\ gen_before = <<>>
    /\ gen_ret = None

SerIdle ==
    /\ ser_pc = "idle"
    /\ ser_obj = None
    /\ ser_order = <<>>
    /\ ser_ret = None

\* build_helper = buildgen.BuildGeneratorHelper(package), once per module
NewBuilder ==
    /\ gen_pc = "idle"
    /\ Calls < MaxCalls
    /\ \E package \in TopPackages :
          /\ \A b \in TopLevel(builders) : builders[b].package # package
          /\ builders' = Append(builders, BuildGeneratorHelper(package, 0))
    /\ UNCHANGED <<labels, nobj, bind_log>>
    /\ UNCHANGED <<autoVars, genVars, outVars, serVars>>

\* the kwargs a module calls rule with: a name, and maybe deps, a label it
\* was returned
RuleKwargs ==
    {[keys |-> <<N_name>>, kwargs |-> (N_name :> Str(n))] : n \in RuleNames}
    \cup {[keys |-> <<N_name, N_deps>>,
           kwargs |-> (N_name :> Str(n)) @@ (N_deps :> d)] :
            n \in RuleNames, d \in labels}

\* a call of rule on a builder
Rule ==
    /\ gen_pc = "idle"
    /\ Calls < MaxCalls
    /\ \E self \in 1..Len(builders), _name \in RuleTypes, kw \in RuleKwargs :
          /\ builders' = rule(builders, self,
                              Node(0, _name, None, kw.keys, kw.kwargs))
          /\ labels' = labels \cup {RuleLabel(builders, self, kw.kwargs)}
    /\ UNCHANGED <<nobj, bind_log>>
    /\ UNCHANGED <<autoVars, genVars, outVars, serVars>>

\* a call of new_repository on a builder
NewRepository ==
    /\ gen_pc = "idle"
    /\ Calls < MaxCalls
    /\ \E self \in 1..Len(builders), _rule \in RepositoryTypes,
          name \in RepositoryNames :
          builders' = new_repository(
                          builders, self, Len(builders) + 1,
                          Node(0, _rule, None, <<N_name>>,
                               (N_name :> Str(name))))
    /\ UNCHANGED <<labels, nobj, bind_log>>
    /\ UNCHANGED <<autoVars, genVars, outVars, serVars>>

\* what a call leaves in the log: the call, the string returned, the
\* bindings of the builder it was made on before and after it
Logged(call, bs, after, self, package, name, ret) ==
    [call |-> call, self |-> self, package |-> package, name |-> name,
     ret |-> ret, before |-> bs[self].bindings,
     after |-> after[self].bindings]

\* the packages bind is called with on a builder: those of the
\* repositories it may declare
BindPackages(bs, self) ==
    {ChildPackage(bs[self].package, r) : r \in RepositoryNames}

\* a call of bind on a builder
Bind ==
    /\ gen_pc = "idle"
    /\ Calls < MaxCalls
    /\ \E self \in 1..Len(builders), name \in RuleNames :
          \E package \in BindPackages(builders, self) :
             \E after \in {bind(builders, self, package, name, nobj + 1)} :
                /\ builders' = after
                /\ bind_log' =
                       Append(bind_log,
                              Logged("bind", builders, after, self, package,
                                     name, BindReturn(builders, self, name)))
                /\ nobj' = IF after = builders THEN nobj ELSE nobj + 1
    /\ UNCHANGED labels
    /\ UNCHANGED <<autoVars, genVars, outVars, serVars>>

\* a call of serialize on a label a module was returned by rule
LabelSerialize ==
    /\ gen_pc = "idle"
    /\ Calls < MaxCalls
    /\ \E label \in labels :
          IF label.parent = 0
          THEN /\ bind_log' =
                      Append(bind_log,
                             [call |-> "serialize", self |-> 0,
                              package |-> label.package, name |-> label.name,
                              ret |-> LabelText(builders, label, <<>>),
                              before |-> <<>>, after |-> <<>>])
               /\ UNCHANGED <<builders, nobj>>
          ELSE \E after \in {bind(builders, label.parent, label.package,
                                  label.name, nobj + 1)} :
                  /\ builders' = after
                  /\ bind_log' =
                         Append(bind_log,
                                Logged("serialize", builders, after,
                                       label.parent, label.package,
                                       label.name,
                                       LabelText(builders, label, <<>>)))
                  /\ nobj' = IF after = builders THEN nobj ELSE nobj + 1
    /\ UNCHANGED labels
    /\ UNCHANGED <<autoVars, genVars, outVars, serVars>>

\* exports_embedded(name): recorded for the copy, and exported by a rule
ExportsEmbedded ==
    /\ gen_pc = "idle"
    /\ Calls < MaxCalls
    /\ \E self \in 1..Len(builders), name \in EmbeddedNames :
          builders' =
              [builders EXCEPT
                  ![self].embedded = Append(@, name),
                  ![self].rules =
                      Append(@, Node(0, S_exports_files,
                                     List(<<Str(name)>>), <<>>, <<>>))]
    /\ UNCHANGED <<labels, nobj, bind_log>>
    /\ UNCHANGED <<autoVars, genVars, outVars, serVars>>

\* scratch_file(name, content = ""): self.files[name] = content
StageFile ==
    /\ gen_pc = "idle"
    /\ Calls < MaxCalls
    /\ \E self \in 1..Len(builders), name \in FileNames :
          /\ name \notin DOMAIN builders[self].files
          /\ builders' =
                 [builders EXCEPT ![self].files = DictSet(@, name, <<>>)]
    /\ UNCHANGED <<labels, nobj, bind_log>>
    /\ UNCHANGED <<autoVars, genVars, outVars, serVars>>

---------------------------------------------------------------------------
(* buildgen.py: BuildSerializable.serialize and __serialize                *)

\* most named attributes of a serialized rule
MaxAttrs == 2

N_srcs == <<"s", "r", "c", "s">>
S_glob == <<"g", "l", "o", "b">>

RECURSIVE escape(_)
\* __escape: backslash, newline and both quotes get a backslash
escape(astring) ==
    IF astring = <<>> THEN <<>>
    ELSE (CASE Head(astring) = "\\" -> <<"\\", "\\">>
            [] Head(astring) = "\n" -> <<"\\", "n">>
            [] Head(astring) = "\"" -> <<"\\", "\"">>
            [] Head(astring) = "'" -> <<"\\", "'">>
            [] OTHER -> <<Head(astring)>>) \o escape(Tail(astring))

\* the keys of a dict in the order in which it iterates: their order in
\* rank, a sequence of all the keys there are
DictOrder(keys, rank) == SelectSeq(rank, LAMBDA k : k \in keys)

RECURSIVE ReprItems(_)
\* the items of repr(alist) for a list of plain strings
ReprItems(items) ==
    IF items = <<>> THEN <<>>
    ELSE <<"'">> \o Head(items).s \o <<"'">>
         \o (IF Len(items) > 1 THEN <<",", " ">> ELSE <<>>)
         \o ReprItems(Tail(items))

\* "%s" % obj for a string or a list of strings
PyStr(obj) ==
    IF obj.kind = "list" THEN <<"[">> \o ReprItems(obj.l) \o <<"]">>
    ELSE obj.s

\* the dict branch of __serialize: each key is unpacked into key and
\* value, a ValueError unless it has two items; the text built is not
\* returned, so the result is None
serialize_dict(d) ==
    IF \E key \in DOMAIN d : Len(key) # 2 THEN Raise("ValueError") ELSE None

RECURSIVE serialize_obj(_, _, _, _)
RECURSIVE serialize(_, _, _, _)
RECURSIVE SerializeList(_, _, _, _, _)
RECURSIVE SerializeAttrs(_, _, _, _, _, _)

\* "%s%s,\n" % (result, item) for a serialized item, None formatted too
ListItem(bs, rest, subprefix, rank, result, item) ==
    IF item.kind = "raise" THEN item
    ELSE SerializeList(bs, rest, subprefix, rank,
                       result \o (IF item.kind = "None" THEN <<"N", "o", "n", "e">>
                                  ELSE item.s) \o <<",", "\n">>)

\* the loop of the list branch of __serialize
SerializeList(bs, items, subprefix, rank, result) ==
    IF items = <<>> THEN Str(result)
    ELSE ListItem(bs, Tail(items), subprefix, rank, result,
                  serialize_obj(bs, Head(items), subprefix, rank))

\* the end of the list branch: "%s%s]" % (result, prefix)
ListEnd(result, prefix) ==
    IF result.kind = "raise" THEN result
    ELSE Str(result.s \o prefix \o <<"]">>)

\* BuildSerializable.__serialize(obj, prefix): Str, None or Raise
serialize_obj(bs, obj, prefix, rank) ==
    CASE obj.kind = "list" ->
            ListEnd(SerializeList(bs, obj.l, prefix \o <<" ", " ", " ", " ">>, rank,
                                  prefix \o <<"[", "\n">>), prefix)
      [] obj.kind = "dict" -> serialize_dict(obj.d)
      [] obj.kind = "node" -> serialize(bs, obj, prefix, rank)
      [] obj.kind = "label" -> Str(LabelText(bs, obj, prefix))
      [] OTHER -> Str(prefix \o <<"\"">> \o escape(obj.s) \o <<"\"">>)

\* "%s%s%s = %s,\n" for a serialized attribute; None has no strip
AttrLine(bs, kwargs, rest, rank, newprefix, result, name, attr) ==
    CASE attr.kind = "raise" -> attr
      [] attr.kind = "None" -> Raise("AttributeError")
      [] OTHER ->
            SerializeAttrs(bs, kwargs, rest, rank, newprefix,
                           result \o newprefix \o name \o <<" ", "=", " ">>
                               \o Strip(attr.s) \o <<",", "\n">>)

\* the loop of serialize over self.kwargs.iteritems()
SerializeAttrs(bs, kwargs, names, rank, newprefix, result) ==
    IF names = <<>> THEN Str(result)
    ELSE AttrLine(bs, kwargs, Tail(names), rank, newprefix, result,
                  Head(names),
                  serialize_obj(bs, kwargs[Head(names)], <<" ", " ", " ", " ">>, rank))

\* the head of serialize: "%s(\n" and the line of first
SerializeHead(node, prefix) ==
    node.name \o <<"(", "\n">>
        \o (IF node.first.kind = "None" THEN <<>>
            ELSE prefix \o <<" ", " ", " ", " ">> \o PyStr(node.first) \o <<",", "\n">>)

\* the end of serialize: "%s%s)\n" % (result, prefix)
SerializeEnd(result, prefix) ==
    IF result.kind = "raise" THEN result
    ELSE Str(result.s \o prefix \o <<")", "\n">>)

\* BuildSerializable.serialize(prefix): Str or Raise
serialize(bs, node, prefix, rank) ==
    SerializeEnd(SerializeAttrs(bs, node.kwargs,
                                DictOrder(DOMAIN node.kwargs, rank), rank,
                                prefix \o <<" ", " ", " ", " ">>,
                                SerializeHead(node, prefix)), prefix)

\* the keys of the attributes and the values a caller gives them: strings,
\* lists, dicts, a label and a glob
AttrKeys == {N_name, N_srcs, N_deps}
AttrValues ==
    {Str(<<"v">>), Str(<<"a", "\"", "b">>), List(<<Str(<<"v">>)>>),
     List(<<Dict(<<>>)>>), Dict(<<>>), Dict(<<"k">> :> Str(<<"v">>)),
     Dict(<<"k", "k">> :> Str(<<"v">>)),
     BuildGeneratorLabel(<<"p">>, <<"x">>, 0),
     Node(0, S_glob, Str(<<"*", ".", "c">>), <<>>, <<>>)}

\* the keys of a call in the order the caller supplied them
CallerKeys ==
    {keys \in StringsUpTo(AttrKeys, MaxAttrs) :
        \A i, j \in 1..Len(keys) : i # j => keys[i] # keys[j]}

\* the sequence as a set
Range(seq) == {seq[i] : i \in 1..Len(seq)}

\* BuildSerializable(_name, first, **kwargs) by a caller
SerNew ==
    /\ ser_pc = "idle"
    /\ \E keys \in CallerKeys, first \in {None, List(<<Str(<<"t">>)>>)} :
          \E kwargs \in [Range(keys) -> AttrValues] :
             ser_obj' = Node(0, <<"r">>, first, keys, kwargs)
    /\ ser_pc' = "made"
    /\ UNCHANGED <<ser_order, ser_ret>>
    /\ UNCHANGED <<autoVars, bgVars, genVars, outVars>>

\* serialize() on the object; the dict iterates in an order of its own
Serialize ==
    /\ ser_pc = "made"
    /\ \E rank \in Orders(AttrKeys) :
          /\ ser_order' = DictOrder(DOMAIN ser_obj.kwargs, rank)
          /\ ser_ret' = serialize(builders, ser_obj, <<>>, rank)
    /\ ser_pc' = "done"
    /\ UNCHANGED ser_obj
    /\ UNCHANGED <<autoVars, bgVars, genVars, outVars>>

---------------------------------------------------------------------------
(* packgen.py: the output generators and PackageGenerationHelper          *)

\* most calls made on a package helper by itself
MaxSinkOps == 3

S_WORKSPACE == <<"W", "O", "R", "K", "S", "P", "A", "C", "E">>
S_BUILD == <<"B", "U", "I", "L", "D">>

\* ZipOutputGenerator.__init__ and WorkspaceOutputGenerator.__init__: an
\* archive is the list of its entries, a folder maps paths to files
ZipOutputGenerator == [kind |-> "zip", entries |-> <<>>]
WorkspaceOutputGenerator == [kind |-> "dir", files |-> <<>>]

\* a file of the install path: its content and whether it is executable
Source(content, executable) ==
    [kind |-> "file", content |-> content, executable |-> executable]

\* what a call on an output leaves: the output, and the exception if any
Out(output, exc) == [output |-> output, exc |-> exc]

\* ZipOutputGenerator.scratch_file: writestr adds an entry, read-only
ZipScratchFile(output, path, content) ==
    [output EXCEPT !.entries =
        Append(@, [path |-> path, content |-> content, mode |-> 444])]

\* WorkspaceOutputGenerator.scratch_file: open(p, "w"), chmod 0600
DirScratchFile(output, path, content) ==
    [output EXCEPT !.files =
        DictSet(@, path, [content |-> content, mode |-> 600])]

\* scratch_file on an output
scratch_file(output, path, content) ==
    IF output.kind = "zip" THEN ZipScratchFile(output, path, content)
    ELSE DirScratchFile(output, path, content)

\* ZipOutputGenerator.copy: PackageGenerationFailure if there is no
\* origfile, else an entry with its content, executable or not
ZipCopy(output, path, origfile) ==
    IF origfile.kind = "None"
    THEN Out(output, Raise("PackageGenerationFailure"))
    ELSE Out([output EXCEPT !.entries =
                 Append(@, [path |-> path, content |-> origfile.content,
                            mode |-> IF origfile.executable THEN 555
                                     ELSE 444])],
             None)

\* WorkspaceOutputGenerator.copy: shutil.copyfile raises IOError if there
\* is no origfile
DirCopy(output, path, origfile) ==
    IF origfile.kind = "None"
    THEN Out(output, Raise("IOError"))
    ELSE Out([output EXCEPT !.files =
                 DictSet(@, path,
                         [content |-> origfile.content,
                          mode |-> IF origfile.executable THEN 700
                                   ELSE 600])],
             None)

\* copy on an output
copy(output, path, origfile) ==
    IF output.kind = "zip" THEN ZipCopy(output, path, origfile)
    ELSE DirCopy(output, path, origfile)

\* WorkspaceOutputGenerator.append: a newline and the content at the end of
\* the file if it exists, else scratch_file
DirAppend(output, path, content) ==
    IF path \in DOMAIN output.files
    THEN [output EXCEPT !.files[path].content = @ \o <<"\n">> \o content]
    ELSE DirScratchFile(output, path, content)

\* append on an output; ZipOutputGenerator.append is its scratch_file
append(output, path, content) ==
    IF output.kind = "zip" THEN ZipScratchFile(output, path, content)
    ELSE DirAppend(output, path, content)

\* PackageGenerationHelper: self.package + os.path.sep + name
PackagePath(package, name) == package \o <<"/">> \o name

\* a call on a package helper as the log keeps it: the method, the package
\* of the helper, the path on the output, the content written or the file
\* copied, and the exception raised
HelperCall(op, package, path, content, exc) ==
    [op |-> op, package |-> package, path |-> path, content |-> content,
     exc |-> exc]

OutIdle ==
    /\ sink = None
    /\ sink_log = <<>>

\* a call raised: the program is over
SinkRaised ==
    sink_log # <<>> /\ sink_log[Len(sink_log)].exc.kind = "raise"

\* the contents and the files of the install path used on a sink
SinkContents == { <<"A">>, <<"B">> }
SinkSources == {None, Source(<<"T">>, FALSE), Source(<<"T">>, TRUE)}

\* output = packgen.WorkspaceOutputGenerator(output_dir), or the
\* ZipOutputGenerator of a ZipPackageGenerationHelper
NewSink ==
    /\ sink = None
    /\ sink' \in {ZipOutputGenerator, WorkspaceOutputGenerator}
    /\ UNCHANGED sink_log
    /\ UNCHANGED <<autoVars, bgVars, genVars, serVars>>

\* PackageGenerationHelper.scratch_file(name, content)
HelperScratchFile ==
    /\ sink # None /\ ~SinkRaised /\ gen_pc = "idle"
    /\ Len(sink_log) < MaxSinkOps
    /\ \E package \in TopPackages, name \in FileNames \cup {S_BUILD},
          content \in SinkContents :
          /\ sink' = scratch_file(sink, PackagePath(package, name), content)
          /\ sink_log' =
                 Append(sink_log,
                        HelperCall("scratch_file", package,
                                   PackagePath(package, name), content,
                                   None))
    /\ UNCHANGED <<autoVars, bgVars, genVars, serVars>>

\* PackageGenerationHelper.copy_from_embedded(name)
HelperCopyFromEmbedded ==
    /\ sink # None /\ ~SinkRaised /\ gen_pc = "idle"
    /\ Len(sink_log) < MaxSinkOps
    /\ \E package \in TopPackages, name \in EmbeddedNames,
          origfile \in SinkSources :
          \E out \in {copy(sink, PackagePath(package, name), origfile)} :
             /\ sink' = out.output
             /\ sink_log' =
                    Append(sink_log,
                           HelperCall("copy", package,
                                      PackagePath(package, name), origfile,
                                      out.exc))
    /\ UNCHANGED <<autoVars, bgVars, genVars, serVars>>

\* PackageGenerationHelper.workspace_part(content)
HelperWorkspacePart ==
    /\ sink # None /\ ~SinkRaised /\ gen_pc = "idle"
    /\ Len(sink_log) < MaxSinkOps
    /\ \E package \in TopPackages, content \in SinkContents :
          /\ sink' = append(sink, S_WORKSPACE, content)
          /\ sink_log' =
                 Append(sink_log,
                        HelperCall("append", package, S_WORKSPACE, content,
                                   None))
    /\ UNCHANGED <<autoVars, bgVars, genVars, serVars>>

---------------------------------------------------------------------------
(* buildgen.py: __build_file, __workspace_file and generate                *)

\* most calls made on the builders of a workspace that is generated
MaxGenCalls == 4

\* the first lines of a build file
BuildFileHeader ==
    <<"#", " ", "T", "h", "i", "s", " ", "f", "i", "l", "e", " ",
      "w", "a", "s", " ", "a", "u", "t", "o", "-", "g", "e", "n",
      "e", "r", "a", "t", "e", "d", ".", " ", "D", "o", " ", "n",
      "o", "t", " ", "e", "d", "i", "t", ".", "\n">>
    \o <<"#", " ", "I", "f", " ", "y", "o", "u", " ", "w", "i", "s",
         "h", " ", "t", "o", " ", "o", "v", "e", "r", "w", "r", "i",
         "t", "e", " ", "t", "h", "i", "s", " ", "p", "a", "c", "k",
         "a", "g", "e", ",", " ", "c", "o", "p", "y", " ", "t", "h",
         "e", " ", "p", "a", "c", "k", "a", "g", "e", "\n">>
    \o <<"#", " ", "i", "n", "t", "o", " ", "y", "o", "u", "r", " ",
         "w", "o", "r", "k", "s", "p", "a", "c", "e", "\n">>
    \o <<"p", "a", "c", "k", "a", "g", "e", "(", "d", "e", "f", "a",
         "u", "l", "t", "_", "v", "i", "s", "i", "b", "i", "l", "i",
         "t", "y", " ", "=", " ", "[", "\"", "/", "/", "v", "i", "s",
         "i", "b", "i", "l", "i", "t", "y", ":", "p", "u", "b", "l",
         "i", "c", "\"", "]", ")", "\n">>

\* the first lines of the part of the WORKSPACE file of a package
WorkspaceFileHeader(package) ==
    <<"#", "\n", "#", " ", "G", "e", "n", "e", "r", "a", "t", "e",
      "d", " ", "p", "a", "r", "t", " ", "f", "r", "o", "m", " ",
      "p", "a", "c", "k", "a", "g", "e", " ">> \o package \o <<"\n", "#", "\n">>

RECURSIVE SerializeRules(_, _, _, _)
\* result = "%s\n%s" % (result, rule.serialize()) for each rule; the
\* attributes of the rules of a builder are strings and labels, whose
\* serialization does not raise
SerializeRules(bs, rules, rank, result) ==
    IF rules = <<>> THEN result
    ELSE SerializeRules(bs, Tail(rules), rank,
                        result \o <<"\n">>
                            \o serialize(bs, Head(rules), <<>>, rank).s)

\* __build_file: the text of the build file of a builder
build_file(bs, self, rank) ==
    SerializeRules(bs, bs[self].rules, rank, BuildFileHeader)

\* the bind records of a builder in the order in which its dict iterates
BindRules(bindings, names) ==
    [i \in 1..Len(DictOrder(DOMAIN bindings, names)) |->
        bindings[DictOrder(DOMAIN bindings, names)[i]]]

\* __workspace_file: the part of the WORKSPACE file of a builder
workspace_file(bs, self, rank, names) ==
    SerializeRules(bs, BindRules(bs[self].bindings, names), rank,
                   SerializeRules(bs, bs[self].workspace, rank,
                                  WorkspaceFileHeader(bs[self].package)))

RECURSIVE LabelsOf(_, _)
RECURSIVE LabelsOfAll(_, _)
\* the labels with a parent that serializing the object serializes, in
\* that order: each calls bind on its parent
LabelsOf(obj, rank) ==
    CASE obj.kind = "label" -> IF obj.parent # 0 THEN <<obj>> ELSE <<>>
      [] obj.kind = "list" -> LabelsOfAll(obj.l, rank)
      [] obj.kind = "node" ->
            LabelsOfAll([i \in 1..Len(DictOrder(DOMAIN obj.kwargs, rank)) |->
                            obj.kwargs[DictOrder(DOMAIN obj.kwargs,
                                                 rank)[i]]], rank)
      [] OTHER -> <<>>

\* the labels of a list of objects
LabelsOfAll(objs, rank) ==
    IF objs = <<>> THEN <<>>
    ELSE LabelsOf(Head(objs), rank) \o LabelsOfAll(Tail(objs), rank)

\* the builders and the count of records: what bind changes
Heap(bs, id) == [builders |-> bs, nobj |-> id]

RECURSIVE ApplyBinds(_, _, _)
\* a record was created by the bind of the label or not
BindDone(bs, id, after, rest) ==
    ApplyBinds(after, IF after = bs THEN id ELSE id + 1, rest)

\* the calls of parent.bind(package, name) of the labels, in order
ApplyBinds(bs, id, ls) ==
    IF ls = <<>> THEN Heap(bs, id)
    ELSE BindDone(bs, id,
                  bind(bs, Head(ls).parent, Head(ls).package, Head(ls).name,
                       id + 1),
                  Tail(ls))

\* what generate leaves: the builders and records, the output, the calls
\* made on the package helper, the exception if it raised
Generated(heap, output, log, ret) ==
    [builders |-> heap.builders, nobj |-> heap.nobj, output |-> output,
     log |-> log, ret |-> ret]

\* the choices generate does not make itself: the orders in which the
\* dicts of attributes, self.repositories, self.files and self.bindings
\* iterate, and the files of the install path
Choices(rank, repositories, files, bindings, install) ==
    [rank |-> rank, repositories |-> repositories, files |-> files,
     bindings |-> bindings, install |-> install]

\* helper.scratch_file(name, content) and its entry in the log
Scratched(heap, self, output, log, name, content) ==
    Generated(heap,
              scratch_file(output,
                           PackagePath(heap.builders[self].package, name),
                           content),
              Append(log,
                     HelperCall("scratch_file",
                                heap.builders[self].package,
                                PackagePath(heap.builders[self].package,
                                            name),
                                content, None)),
              None)

\* helper.workspace_part(self.__workspace_file())
GenWorkspacePart(g, self, ch) ==
    Generated(
        Heap(g.builders, g.nobj),
        append(g.output, S_WORKSPACE,
               workspace_file(g.builders, self, ch.rank, ch.bindings)),
        Append(g.log,
               HelperCall("append", g.builders[self].package, S_WORKSPACE,
                          workspace_file(g.builders, self, ch.rank,
                                         ch.bindings),
                          None)),
        None)

RECURSIVE GenFiles(_, _, _, _)
\* for name, content in self.files.iteritems(): helper.scratch_file
GenFiles(g, self, ch, names) ==
    IF names = <<>> THEN GenWorkspacePart(g, self, ch)
    ELSE GenFiles(Scratched(Heap(g.builders, g.nobj), self, g.output, g.log,
                            Head(names), g.builders[self].files[Head(names)]),
                  self, ch, Tail(names))

RECURSIVE GenEmbedded(_, _, _, _)
\* the copy was made, or it raised and generate is over
Copied(g, self, ch, name, rest, out) ==
    IF out.exc.kind = "raise"
    THEN Generated(Heap(g.builders, g.nobj), out.output,
                   Append(g.log,
                          HelperCall("copy", g.builders[self].package,
                                     PackagePath(g.builders[self].package,
                                                 name),
                                     ch.install[name], out.exc)),
                   out.exc)
    ELSE GenEmbedded(
             Generated(Heap(g.builders, g.nobj), out.output,
                       Append(g.log,
                              HelperCall("copy", g.builders[self].package,
                                         PackagePath(
                                             g.builders[self].package, name),
                                         ch.install[name], None)),
                       None),
             self, ch, rest)

\* for name in self.embedded: helper.copy_from_embedded(name)
GenEmbedded(g, self, ch, names) ==
    IF names = <<>>
    THEN GenFiles(g, self, ch, ch.files)
    ELSE Copied(g, self, ch, Head(names), Tail(names),
                copy(g.output,
                     PackagePath(g.builders[self].package, Head(names)),
                     ch.install[Head(names)]))

RECURSIVE GenRepositories(_, _, _, _)
\* for key, repository in self.repositories.iteritems():
\*   helper.scratch_file("BUILD." + key, repository.__build_file())
GenRepositories(g, self, ch, keys) ==
    IF keys = <<>>
    THEN GenEmbedded(g, self, ch, g.builders[self].embedded)
    ELSE GenRepositories(
             Scratched(
                 ApplyBinds(g.builders, g.nobj,
                            LabelsOfAll(
                                g.builders[
                                    g.builders[self].repositories[Head(keys)]
                                ].rules, ch.rank)),
                 self, g.output, g.log, <<"B", "U", "I", "L", "D", ".">> \o Head(keys),
                 build_file(g.builders,
                            g.builders[self].repositories[Head(keys)],
                            ch.rank)),
             self, ch, Tail(keys))

\* generate(helper) on the builder self for an output
generate(bs, id, self, output, log, ch) ==
    GenRepositories(
        Scratched(ApplyBinds(bs, id, LabelsOfAll(bs[self].rules, ch.rank)),
                  self, output, log, S_BUILD, build_file(bs, self, ch.rank)),
        self, ch, ch.repositories)

\* the keys of the attributes of what generate serializes for a builder:
\* its rules and those of its repositories, its workspace rules, and the
\* bind records if it has or gets any
UsedKeys(bs, self) ==
    UNION {UNION {DOMAIN bs[b].rules[i].kwargs :
                     i \in 1..Len(bs[b].rules)} :
              b \in {c \in 1..Len(bs) : c = self \/ bs[c].parent = self}}
        \cup UNION {DOMAIN bs[self].workspace[i].kwargs :
                       i \in 1..Len(bs[self].workspace)}
        \cup (IF bs[self].bindings # <<>>
                  \/ LabelsOfAll(bs[self].rules, <<N_name, N_deps>>) # <<>>
               THEN {N_name, N_actual} ELSE {})

\* the names self.bindings is keyed by, once the build file is serialized
BindingNames(bs, self) ==
    DOMAIN bs[self].bindings
        \cup Range([i \in 1..Len(LabelsOfAll(bs[self].rules,
                                            <<N_name, N_deps>>)) |->
                      LabelsOfAll(bs[self].rules,
                                  <<N_name, N_deps>>)[i].name])

\* the workspaces that are generated: the repositories are all named one
\* name, and the rules too
GenNames(bs) ==
    \A b \in 1..Len(bs) :
        /\ DOMAIN bs[b].repositories \subseteq { <<"c">> }
        /\ \A i \in 1..Len(bs[b].rules) :
              N_name \in DOMAIN bs[b].rules[i].kwargs
                  => bs[b].rules[i].kwargs[N_name].s = <<"x">>

\* the files the install path may hold for the embedded files of a builder
Installs(embedded) ==
    IF embedded = <<>> THEN {[name \in EmbeddedNames |-> None]}
    ELSE [EmbeddedNames -> SinkSources]

\* build_helper.generate(package_helper) for a module, on the output the
\* modules share
Generate ==
    /\ gen_pc \in {"idle", "done"}
    /\ \E self \in TopLevel(builders) \ gen_done,
          output \in (IF sink = None
                      THEN {ZipOutputGenerator, WorkspaceOutputGenerator}
                      ELSE {sink}) :
          \E rank \in Orders(UsedKeys(builders, self)),
             bindings \in Orders(BindingNames(builders, self)),
             repositories \in Orders(DOMAIN builders[self].repositories),
             files \in Orders(DOMAIN builders[self].files),
             install \in Installs(builders[self].embedded) :
             \E g \in {generate(builders, nobj, self, output, sink_log,
                                Choices(rank, repositories, files, bindings,
                                        install))} :
                /\ builders' = g.builders
                /\ nobj' = g.nobj
                /\ sink' = g.output
                /\ sink_log' = g.log
                /\ gen_ret' = g.ret
                /\ gen_pc' = IF g.ret.kind = "raise" THEN "raised"
                             ELSE "done"
                /\ gen_builder' = self
                /\ gen_done' = gen_done \cup {self}
                /\ gen_before' = builders
    /\ UNCHANGED <<labels, bind_log>>
    /\ UNCHANGED <<autoVars, serVars>>

---------------------------------------------------------------------------
(* Specifications.                                                         *)

VersionNext == VersionCompare
InitVersion == VerInit /\ FlagsIdle /\ SubIdle /\ PcIdle /\ PkgIdle /\ FlIdle
        /\ BgIdle /\ GenIdle /\ OutIdle /\ SerIdle /\ PvIdle
SpecVersion == InitVersion /\ [][VersionNext]_vars

FlagsNext == ProcessFlags
InitFlags == FlagsInit /\ VerIdle /\ SubIdle /\ PcIdle /\ PkgIdle /\ FlIdle
        /\ BgIdle /\ GenIdle /\ OutIdle /\ SerIdle /\ PvIdle
SpecFlags == InitFlags /\ [][FlagsNext]_vars

PcNext == ReadPc \/ ReadPcHang
InitPc == PcInit /\ VerIdle /\ FlagsIdle /\ SubIdle /\ PkgIdle /\ FlIdle
        /\ BgIdle /\ GenIdle /\ OutIdle /\ SerIdle /\ PvIdle
SpecPc == InitPc /\ [][PcNext]_vars

PkgConfigNext ==
    \/ PkgWhich \/ PkgTest \/ PkgMaxCheck \/ PkgQuery \/ PkgPrintVariables
    \/ PkgVariable \/ PkgReturn
InitPkgConfig ==
    PkgInit /\ VerIdle /\ FlagsIdle /\ SubIdle /\ PcIdle /\ FlIdle
        /\ BgIdle /\ GenIdle /\ OutIdle /\ SerIdle /\ PvIdle
SpecPkgConfig == InitPkgConfig /\ [][PkgConfigNext]_vars

\* find_library calls pkg_config without versions: no second check
FindNext ==
    \/ FindPkgConfig \/ FindPkgConfigRaised \/ FindPkgConfigFound
    \/ FindBrewPrefix \/ FindBrewPc \/ FindPortContent \/ FindPortPc
    \/ FindNotFound
    \/ PkgWhich \/ PkgTest \/ PkgQuery \/ PkgPrintVariables \/ PkgVariable
    \/ PkgReturn
InitFind == FlInit /\ VerIdle /\ FlagsIdle /\ SubIdle /\ PcIdle /\ PkgIdle
        /\ BgIdle /\ GenIdle /\ OutIdle /\ SerIdle /\ PvIdle
SpecFind == InitFind /\ [][FindNext]_vars

SubNext == SubStep \/ SubReturn
InitSub == SubInit /\ VerIdle /\ FlagsIdle /\ PcIdle /\ PkgIdle /\ FlIdle
        /\ BgIdle /\ GenIdle /\ OutIdle /\ SerIdle /\ PvIdle
SpecSub == InitSub /\ [][SubNext]_vars

PcVariablesNext == PvIter \/ PvHang \/ PvReturn
InitPcVariables ==
    PvInit /\ VerIdle /\ FlagsIdle /\ SubIdle /\ PcIdle /\ PkgIdle /\ FlIdle
        /\ BgIdle /\ GenIdle /\ OutIdle /\ SerIdle
SpecPcVariables == InitPcVariables /\ [][PcVariablesNext]_vars

BuilderNext ==
    \/ NewBuilder \/ Rule \/ NewRepository \/ Bind \/ LabelSerialize
InitBuilder ==
    BgInit /\ GenIdle /\ OutIdle /\ SerIdle /\ PvIdle
        /\ VerIdle /\ FlagsIdle /\ SubIdle /\ PcIdle /\ PkgIdle /\ FlIdle
SpecBuilder == InitBuilder /\ [][BuilderNext]_vars

SerializeNext == SerNew \/ Serialize
InitSerialize ==
    BgIdle /\ GenIdle /\ OutIdle /\ SerIdle /\ PvIdle
        /\ VerIdle /\ FlagsIdle /\ SubIdle /\ PcIdle /\ PkgIdle /\ FlIdle
SpecSerialize == InitSerialize /\ [][SerializeNext]_vars

SinkNext ==
    \/ NewSink \/ HelperScratchFile \/ HelperCopyFromEmbedded
    \/ HelperWorkspacePart
InitSink ==
    BgIdle /\ GenIdle /\ OutIdle /\ SerIdle /\ PvIdle
        /\ VerIdle /\ FlagsIdle /\ SubIdle /\ PcIdle /\ PkgIdle /\ FlIdle
SpecSink == InitSink /\ [][SinkNext]_vars

\* the calls a module makes on its builder, then generate
GenerateNext ==
    \/ Calls < MaxGenCalls /\ NewBuilder /\ GenNames(builders')
    \/ Calls < MaxGenCalls /\ Rule /\ GenNames(builders')
    \/ Calls < MaxGenCalls /\ NewRepository /\ GenNames(builders')
    \/ Calls < MaxGenCalls /\ ExportsEmbedded /\ GenNames(builders')
    \/ Calls < MaxGenCalls /\ StageFile /\ GenNames(builders')
    \/ Generate
InitGenerate ==
    BgInit /\ GenIdle /\ OutIdle /\ SerIdle /\ PvIdle
        /\ VerIdle /\ FlagsIdle /\ SubIdle /\ PcIdle /\ PkgIdle /\ FlIdle
SpecGenerate == InitGenerate /\ [][GenerateNext]_vars

---------------------------------------------------------------------------
(* Claims about version_compare (SpecVersion).                             *)

RECURSIVE JoinDots(_)
\* ".".join(parts)
JoinDots(parts) ==
    IF parts = <<>> THEN <<>>
    ELSE IF Len(parts) = 1 THEN parts[1]
    ELSE parts[1] \o <<".">> \o JoinDots(Tail(parts))

\* parts are the dot-separated components of s
IsDotSplit(parts, s) ==
    /\ Len(parts) >= 1
    /\ JoinDots(parts) = s
    /\ \A i \in 1..Len(parts) : \A j \in 1..Len(parts[i]) : parts[i][j] # "."

\* a sorts before b as a raw string
RawLess(a, b) ==
    \E k \in 1..Len(b) :
        /\ k <= Len(a) + 1
        /\ SubSeq(a, 1, k - 1) = SubSeq(b, 1, k - 1)
        /\ k = Len(a) + 1 \/ Ord(a[k]) < Ord(b[k])

V_1_2 == <<"1", ".", "2">>
V_1_2_0 == <<"1", ".", "2", ".", "0">>

\* C7: version_compare splits both strings on "." and returns the sign of
\* the first unequal pair of components, compared as raw strings over the
\* common length; when these all agree it returns -1 if the first has fewer
\* components, 1 if it has more, and 0 only for identical component
\* sequences; the four documented comparisons come out as documented.
C7_VersionCompare ==
    ver_pc = "done" =>
        LET c1 == SplitOn(version1, ".")
            c2 == SplitOn(version2, ".")
            n  == Min(Len(c1), Len(c2))
            diff == {i \in 1..n : c1[i] # c2[i]}
        IN  /\ IsDotSplit(c1, version1)
            /\ IsDotSplit(c2, version2)
            /\ diff # {} =>
                  LET k == CHOOSE i \in diff : \A j \in diff : i <= j
                  IN  ver_ret = IF RawLess(c1[k], c2[k]) THEN -1 ELSE 1
            /\ diff = {} =>
                  ver_ret = IF Len(c1) < Len(c2) THEN -1
                            ELSE IF Len(c1) > Len(c2) THEN 1 ELSE 0
            /\ ver_ret = 0 <=> c1 = c2
            /\ version1 = <<"1", ".", "7", ".", "0">> /\ version2 = <<"2">>
                  => ver_ret = -1
            /\ version1 = <<"2", ".", "3", ".", "1">>
                  /\ version2 = <<"2", ".", "1">> => ver_ret = 1
            /\ version1 = V_1_2 /\ version2 = V_1_2 => ver_ret = 0
            /\ version1 = V_1_2 /\ version2 = V_1_2_0 => ver_ret = -1

\* "1.2" against "1.2.0": every compared component agrees, the shorter loses
C7_Witness ==
    /\ ver_pc = "done"
    /\ version1 = V_1_2
    /\ version2 = V_1_2_0
    /\ ver_ret = -1

---------------------------------------------------------------------------
(* Claims about __process_flags (SpecFlags).                               *)

\* what the claim expects of one whitespace-separated token
ExpectedOfToken(tok, strip) ==
    IF strip # None /\ StartsWith(tok, strip.s)
    THEN IF tok = strip.s THEN <<>> ELSE <<DropFirst(tok, Len(strip.s))>>
    ELSE <<tok>>

RECURSIVE ExpectedFlags(_, _)
ExpectedFlags(toks, strip) ==
    IF toks = <<>> THEN <<>>
    ELSE ExpectedOfToken(Head(toks), strip)
             \o ExpectedFlags(Tail(toks), strip)

\* C6: the response is tokenized on whitespace (spaces, tabs and newlines
\* all separate tokens): no returned token is empty or contains a whitespace
\* character; with a prefix each token has that prefix stripped and a token
\* equal to the bare prefix is discarded; without a prefix each token is
\* kept verbatim.
C6_WhitespaceTokens ==
    flags_pc = "done" =>
        /\ \A i \in 1..Len(flags_ret) :
              /\ flags_ret[i] # <<>>
              /\ \A j \in 1..Len(flags_ret[i]) : ~IsSpace(flags_ret[i][j])
        /\ flags_ret = ExpectedFlags(SplitWs(astr), strip_option)

---------------------------------------------------------------------------
(* Claims about sub_variables (SpecSub).                                   *)

RECURSIVE Expand(_, _, _)
\* s with every token replaced by the full expansion of its variable (the
\* empty string when undefined), to nesting depth d
Expand(s, env, d) ==
    IF ~HasToken(s) THEN s
    ELSE LET i == TokenStart(s)
             e == TokenEndAt(s, i)
             n == SubSeq(s, i + 2, e - 1)
             body == IF n \in DOMAIN env THEN env[n] ELSE <<>>
         IN  SubSeq(s, 1, i - 1)
                 \o (IF d = 0 THEN <<>> ELSE Expand(body, env, d - 1))
                 \o Expand(DropFirst(s, e), env, d)

\* C8: whenever sub_variables returns, the result holds no ${name} token and
\* equals the value with every token replaced recursively by the fully
\* expanded value of its variable, an undefined variable giving the empty
\* string; "${exec_prefix}/lib" expands to "/usr/local/lib".
C8_FullExpansion ==
    sub_pc = "done" =>
        /\ ~HasToken(value)
        /\ Acyclic(value0, variables) =>
              value = Expand(value0, variables, Cardinality(DOMAIN variables) + 1)
        /\ value0 = TestValue /\ variables = TestEnv
              => value = S_usr_local \o S_lib

\* the value names, in a token of its own, a variable that is on a cycle
CyclicRef == \E n \in Refs(value0) : OnCycle(n, variables)

\* C9: sub_variables terminates whenever the variable references reachable
\* from the tokens of the value form no cycle, and never terminates when the
\* value references a variable whose definition refers back to itself.
\* (Termination is stated on the loop run to its end from the call's
\* arguments; non-termination as the loop never reaching its return.)
C9_Termination ==
    /\ Acyclic(value0, variables) => sub_variables(value0, variables) # Hang
    /\ CyclicRef => sub_pc # "done"

---------------------------------------------------------------------------
(* Claims about read_pc_as_pkg_config (SpecPc).                            *)

\* list holds, in token order, the substituted tokens of toks at the indices
\* idx, each without its first n characters
InTokenOrder(list, toks, idx, n, env) ==
    /\ Len(list) = Cardinality(idx)
    /\ \A i \in idx :
          Str(list[Cardinality({j \in idx : j <= i})])
              = sub_variables(DropFirst(toks[i], n), env)

\* C10: for a parsed .pc file, library_dirs are the substituted remainders
\* of the Libs tokens that start with -L, libraries the same for -l, ldflags
\* the substituted Libs tokens that start with neither, include_dirs the
\* substituted remainders of the Cflags tokens that start with -I and cflags
\* the substituted Cflags tokens that do not, each in token order; so every
\* token of Libs is in exactly one of the first three lists and every token
\* of Cflags in exactly one of the last two.
C10_PcFlagLists ==
    (pc_pc = "done" /\ pc_ret.kind = "dict") =>
        LET f == pc_read(pc_file)
            d == pc_ret.d
            libs == SplitWs(f.fields[K_Libs])
            cfl == SplitWs(f.fields[K_Cflags])
            isL == {i \in 1..Len(libs) : StartsWith(libs[i], Opt_L)}
            isl == {i \in 1..Len(libs) : StartsWith(libs[i], Opt_l)}
            isI == {i \in 1..Len(cfl) : StartsWith(cfl[i], Opt_I)}
        IN  /\ InTokenOrder(d.library_dirs, libs, isL, 2, d.variables)
            /\ InTokenOrder(d.libraries, libs, isl, 2, d.variables)
            /\ InTokenOrder(d.ldflags, libs, (1..Len(libs)) \ (isL \cup isl),
                            0, d.variables)
            /\ InTokenOrder(d.include_dirs, cfl, isI, 2, d.variables)
            /\ InTokenOrder(d.cflags, cfl, (1..Len(cfl)) \ isI, 0, d.variables)
            /\ Len(d.library_dirs) + Len(d.libraries) + Len(d.ldflags)
                  = Len(libs)
            /\ Len(d.include_dirs) + Len(d.cflags) = Len(cfl)
            /\ pc_file = TestPcFile => pc_ret = TestPcResult

\* a file with Libs of all three kinds and Cflags of both, its variables
\* substituted to two levels
C10_Witness ==
    /\ pc_pc = "done"
    /\ pc_ret.kind = "dict"
    /\ pc_file = File(<<L_p, L_l, L_Libs, L_Cflags>>)
    /\ pc_ret.d.libraries = <<<<"a">>>>
    /\ pc_ret.d.ldflags = <<<<"-", "x">>>>
    /\ pc_ret.d.include_dirs = <<<<"/", "x", "/", "i">>>>
    /\ pc_ret.d.cflags = <<<<"-", "D">>>>
    /\ pc_ret.d.library_dirs = <<<<"/", "x", "/", "l">>>>

---------------------------------------------------------------------------
(* Claims about pkg_config (SpecPkgConfig).                                *)

\* the existence test the arguments call for: exact-version if given, else
\* atleast-version, else max-version, else --exists
ExpectedTest(args) ==
    CASE args.exact_version # None ->
             [call |-> "check", rc |-> 0, opt |-> "--exact-version",
              arg |-> args.exact_version]
      [] args.exact_version = None /\ args.atleast_version # None ->
             [call |-> "check", rc |-> 0, opt |-> "--atleast-version",
              arg |-> args.atleast_version]
      [] args.exact_version = None /\ args.atleast_version = None
            /\ args.max_version # None ->
             [call |-> "check", rc |-> 0, opt |-> "--max-version",
              arg |-> args.max_version]
      [] OTHER ->
             [call |-> "check", rc |-> 0, opt |-> "--exists", arg |-> None]

\* the positions of the log holding a call of the given kind
LogCalls(kind) == {i \in 1..Len(pkg_log) : pkg_log[i].call = kind}

\* both an atleast and a max version were given
BothBounds == pkg_args.atleast_version # None /\ pkg_args.max_version # None

\* C5: no flag query or variable query is issued unless the single
\* existence test (exact-version if given, else atleast-version, else
\* max-version, else --exists) has exited 0 and, when both atleast_version
\* and max_version are given, the second --max-version check issued after
\* it has also exited 0; if the tool is not on PATH or any of these checks
\* exits nonzero the result is not-found and no query is issued.
C5_ChecksBeforeQueries ==
    /\ \A i \in LogCalls("query") : \A j \in LogCalls("check") : j < i
    /\ Cardinality(LogCalls("check")) <= IF BothBounds THEN 2 ELSE 1
    /\ LogCalls("query") # {} =>
          /\ pkg_log[1] = ExpectedTest(pkg_args)
          /\ BothBounds =>
                pkg_log[2] = [call |-> "check", rc |-> 0,
                              opt |-> "--max-version",
                              arg |-> pkg_args.max_version]
    /\ (\E j \in LogCalls("check") : pkg_log[j].rc # 0) =>
          /\ LogCalls("query") = {}
          /\ pkg_pc = "done"
          /\ pkg_ret = None
    /\ (pkg_pc = "done" /\ pkg_log = <<>>) => pkg_ret = None

\* a call with an atleast and a max version that passed both checks and
\* answered every query
C5_Witness ==
    /\ pkg_pc = "done"
    /\ BothBounds
    /\ pkg_args.exact_version = None
    /\ pkg_ret.kind = "dict"
    /\ Cardinality(LogCalls("check")) = 2
    /\ Cardinality(LogCalls("query")) >= 6

---------------------------------------------------------------------------
(* Claims about find_library (SpecFind).                                   *)

\* find_library is over: it returned, raised, or will never return
FindOver == fl_pc \in {"done", "raised", "hang"}

\* brew gave no prefix: no brew, a failure, or an empty answer
NoPrefix(out) == out = None \/ out = Str(<<>>)

\* port listed no files
NoFiles(out) == out = None \/ out = List(<<>>)

TierOrder == <<"pkg_config", "brew_prefix", "port_content">>

\* C2: find_library consults its tiers strictly in the order pkg-config,
\* brew prefix, port contents, and the first tier that succeeds determines
\* the result: brew is queried only after pkg_config returned not-found,
\* port only after brew gave no prefix, and not-found is returned only when
\* pkg_config found nothing, brew gave no prefix and port listed no files.
C2_TierOrder ==
    /\ Len(fl_log) <= 3
    /\ \A i \in 1..Len(fl_log) : fl_log[i].tier = TierOrder[i]
    /\ fl_log # <<>> => pkg_pc = "done" /\ fl_log[1].out = pkg_ret
    /\ Len(fl_log) >= 2 => fl_log[1].out = None
    /\ Len(fl_log) >= 3 => NoPrefix(fl_log[2].out)
    /\ (FindOver /\ Len(fl_log) = 1) =>
          fl_log[1].out # None /\ fl_ret = fl_log[1].out
    /\ (FindOver /\ Len(fl_log) = 2) => ~NoPrefix(fl_log[2].out)
    /\ (fl_pc = "done" /\ Len(fl_log) = 2) => fl_ret # None
    /\ (fl_pc = "done" /\ fl_ret = None) =>
          /\ Len(fl_log) = 3
          /\ fl_log[1].out = None
          /\ NoPrefix(fl_log[2].out)
          /\ NoFiles(fl_log[3].out)
    /\ (FindOver /\ Len(fl_log) = 3 /\ NoFiles(fl_log[3].out)) =>
          fl_pc = "done" /\ fl_ret = None

\* not-found after all three tiers came up empty, brew having answered with
\* an empty prefix and port with an empty list
C2_Witness ==
    /\ fl_pc = "done"
    /\ fl_ret = None
    /\ Len(fl_log) = 3
    /\ fl_log[2].out = Str(<<>>)
    /\ fl_log[3].out = List(<<>>)

FlagFields == {"library_dirs", "libraries", "ldflags", "include_dirs", "cflags"}

\* the first listed file that ends in .pc, None when there is none
FirstPc(files) ==
    LET pcs == SelectSeq(files, LAMBDA f : EndsWith(f, <<".", "p", "c">>))
    IN  IF pcs = <<>> THEN None ELSE Str(pcs[1])

\* the result was made up by the brew or the port tier, no .pc file read
Synthetic ==
    /\ Len(fl_log) >= 2
    /\ \/ read_pc_as_pkg_config(pc_file, pc_order) = None
       \/ Len(fl_log) = 3 /\ FirstPc(fl_port_files.l) = None

\* C1: every result of find_library other than not-found is a complete
\* FlagSet: it has all six fields library_dirs, libraries, ldflags,
\* include_dirs, cflags and variables, whichever tier produced it; the
\* synthetic results of the brew and port tiers carry empty lists for the
\* five flag fields.
C1_CompleteFlagSet ==
    (fl_pc = "done" /\ fl_ret # None) =>
        /\ fl_ret.kind = "dict"
        /\ DOMAIN fl_ret.d = FlagFields \cup {"variables"}
        /\ Synthetic => \A k \in FlagFields : fl_ret.d[k] = <<>>

\* the variables of the synthetic FlagSet of the port tier
PortSynthetic(files) ==
    (N_content :> files)
        @@ (N_prefix :> S_opt_local)
        @@ (N_exec_prefix :> S_opt_local)
        @@ (N_libdir :> <<"/", "o", "p", "t", "/", "l", "o", "c", "a", "l",
                          "/", "l", "i", "b">>)
        @@ (N_includedir :> <<"/", "o", "p", "t", "/", "l", "o", "c", "a", "l",
                              "/", "i", "n", "c", "l", "u", "d", "e">>)

\* C3: in the port tier, when port lists a non-empty set of files: if none
\* of the files ends in .pc or parsing the first .pc file fails, the result
\* is the synthetic FlagSet whose variables are content = the file list and
\* prefix/exec_prefix/libdir/includedir under /opt/local; if the first file
\* ending in .pc is parsed successfully, the result is its FlagSet with
\* variables.content set to the file list.
C3_PortResult ==
    (FindOver /\ Len(fl_log) = 3 /\ ~NoFiles(fl_port_files)) =>
        LET files == fl_port_files.l
            parsed == IF FirstPc(files) = None THEN None
                      ELSE read_pc_as_pkg_config(pc_file, pc_order)
        IN  /\ fl_pc = "done"
            /\ fl_ret.kind = "dict"
            /\ IF parsed.kind = "dict"
               THEN fl_ret.d = [parsed.d EXCEPT
                                   !.variables = (N_content :> files) @@ @]
               ELSE fl_ret.d.variables = PortSynthetic(files)

\* C4: whenever brew reports an install prefix (and pkg-config did not find
\* the library), find_library returns a truthy found result and does not
\* raise, whatever the .pc file under prefix/lib/pkgconfig contains or
\* lacks (absent file, empty file, file with no Libs or no Cflags line).
C4_BrewPrefixFound ==
    (fl_pc \in {"done", "raised"} /\ Len(fl_log) = 2
        /\ ~NoPrefix(fl_brew_prefix)) =>
        /\ fl_pc = "done"
        /\ fl_ret.kind = "dict"
        /\ DOMAIN fl_ret.d # {}

---------------------------------------------------------------------------
(* Claims about labels and bind (SpecBuilder)                              *)

\* the call a step has just added to the log
LastCall == bind_log'[Len(bind_log')]

\* a step that is a call of serialize on a label
SerializeStep ==
    /\ Len(bind_log') = Len(bind_log) + 1
    /\ LastCall.call = "serialize"

\* C11: a label of a rule of a top-level builder for package p serializes
\* as "//p:name" and no builder changes; a label of a rule of a repository
\* nested under p serializes as "//external:p/name", and the builder of p
\* holds a bind record for the name afterwards.
C11_LabelSerialization ==
    [][SerializeStep =>
          IF LastCall.self = 0
          THEN /\ LastCall.ret = <<"\"", "/", "/">> \o LastCall.package
                                    \o <<":">> \o LastCall.name \o <<"\"">>
               /\ builders' = builders
          ELSE /\ LastCall.ret =
                      <<"\"">> \o <<"/", "/", "e", "x", "t", "e", "r", "n", "a", "l", ":">>
                          \o builders[LastCall.self].package \o <<"/">>
                          \o LastCall.name \o <<"\"">>
               /\ builders[LastCall.self].parent = 0
                      => LastCall.package \in
                            {ChildPackage(builders[LastCall.self].package, r)
                                : r \in RepositoryNames}
               /\ LastCall.name \in DOMAIN builders'[LastCall.self].bindings
               /\ builders'[LastCall.self].bindings[LastCall.name].name
                      = S_bind]_vars

\* a label of a rule of a nested repository has been serialized, and the
\* builder of the package it is nested under holds a record for it
C11_Witness ==
    \E i \in 1..Len(bind_log) :
        /\ bind_log[i].call = "serialize"
        /\ bind_log[i].self # 0
        /\ bind_log[i].before = <<>>
        /\ bind_log[i].name \in DOMAIN bind_log[i].after
        /\ builders[bind_log[i].self].bindings = bind_log[i].after


\* the string a bind record holds for actual
Actual(record) == record.kwargs[N_actual].s

\* the call holds, when it returns, a record for the pair it was made with
Bound(call) ==
    /\ call.self # 0
    /\ call.name \in DOMAIN call.after
    /\ Actual(call.after[call.name]) = call.package \o <<":">> \o call.name

\* two calls with the same pair on the same builder
SamePair(c1, c2) ==
    /\ c1.self = c2.self
    /\ c1.package = c2.package
    /\ c1.name = c2.name

\* C12: bind is idempotent: a bind of a pair that was bound before on the
\* builder (directly, or through a label) returns the same string as the
\* earlier call of its kind, adds no record and changes none; the record
\* the first call stored for the pair is still the one the table holds
\* (the same object), so the pair has one record and not two.
C12_BindIdempotent ==
    \A i, j \in 1..Len(bind_log) :
        (i < j /\ SamePair(bind_log[i], bind_log[j]))
            => /\ bind_log[j].call = bind_log[i].call
                      => bind_log[j].ret = bind_log[i].ret
               /\ bind_log[j].after = bind_log[j].before
               /\ Bound(bind_log[i])
                      => /\ bind_log[j].after[bind_log[j].name]
                                = bind_log[i].after[bind_log[i].name]
                         /\ builders[bind_log[i].self]
                                   .bindings[bind_log[i].name]
                                = bind_log[i].after[bind_log[i].name]

\* a bound pair has been bound again
C12_Witness ==
    \E i, j \in 1..Len(bind_log) :
        /\ i < j
        /\ bind_log[i].call = "bind"
        /\ bind_log[j].call = "bind"
        /\ SamePair(bind_log[i], bind_log[j])
        /\ Bound(bind_log[i])
        /\ bind_log[i].before = <<>>


\* the bindings hold a record for the pair of the call
HoldsRecord(bindings, call) ==
    \E k \in DOMAIN bindings :
        Actual(bindings[k]) = call.package \o <<":">> \o call.name

\* C13: the bindings table is keyed by (package, name): after bind(p1, n)
\* and bind(p2, n) on one builder, with p1 # p2, the table holds a record
\* for each pair, each with its own actual.
C13_KeyedByPair ==
    \A i, j \in 1..Len(bind_log) :
        (/\ i < j
         /\ bind_log[i].self # 0
         /\ bind_log[i].self = bind_log[j].self
         /\ bind_log[i].name = bind_log[j].name
         /\ bind_log[i].package # bind_log[j].package)
            => /\ HoldsRecord(builders[bind_log[i].self].bindings,
                              bind_log[i])
               /\ HoldsRecord(builders[bind_log[j].self].bindings,
                              bind_log[j])

---------------------------------------------------------------------------
(* Claims about the serializer (SpecSerialize)                             *)

\* an iteration order of all the keys that starts with the given ones
CallerRank(keys) ==
    keys \o CHOOSE rest \in Orders(AttrKeys \ Range(keys)) : TRUE

\* C14: a rule serializes its named attributes in the order in which the
\* caller supplied them: the text is the one with the attributes in that
\* order.
C14_CallerOrder ==
    (ser_pc = "done" /\ ser_ret.kind = "str")
        => /\ ser_order = ser_obj.keys
           /\ ser_ret = serialize(builders, ser_obj, <<>>,
                                  CallerRank(ser_obj.keys))

\* piece occurs in the text
Contains(text, piece) ==
    \E i \in 1..(Len(text) - Len(piece) + 1) :
        SubSeq(text, i, i + Len(piece) - 1) = piece

RECURSIVE MappingEntries(_, _)
\* the entries of a mapping of strings, one "<key>": "<value>", per pair
MappingEntries(d, order) ==
    IF order = <<>> THEN <<>>
    ELSE <<" ", " ", " ", " ", " ", " ", " ", " ">> \o <<"\"">> \o escape(Head(order)) \o <<"\"", ":", " ">>
         \o <<"\"">> \o escape(d[Head(order)].s) \o <<"\"", ",", "\n">>
         \o MappingEntries(d, Tail(order))

\* { <key>: <value>, ... } as the value of an attribute
MappingText(d, order) ==
    <<"{", "\n">> \o MappingEntries(d, order) \o <<" ", " ", " ", " ", "}">>

\* C15: a rule with a Mapping attribute always serializes to a string,
\* never an error, and the string holds the mapping as
\* { <key>: <value>, ... }, one entry per pair.
C15_MappingSerializes ==
    ser_pc = "done" =>
        \A name \in DOMAIN ser_obj.kwargs :
            ser_obj.kwargs[name].kind = "dict"
                => /\ ser_ret.kind = "str"
                   /\ \E order \in Orders(DOMAIN ser_obj.kwargs[name].d) :
                         Contains(ser_ret.s,
                                  name \o <<" ", "=", " ">>
                                      \o MappingText(ser_obj.kwargs[name].d,
                                                     order))

---------------------------------------------------------------------------
(* Claims about the output sinks (SpecSink)                                *)

\* the fragments appended to WORKSPACE so far, in order
Fragments ==
    LET calls == SelectSeq(sink_log, LAMBDA c : c.op = "append")
    IN  [i \in 1..Len(calls) |-> calls[i].content]

\* the contents of what the sink holds under the path
Held(path) ==
    IF sink.kind = "zip"
    THEN LET found == SelectSeq(sink.entries, LAMBDA e : e.path = path)
         IN  [i \in 1..Len(found) |-> found[i].content]
    ELSE IF path \in DOMAIN sink.files THEN <<sink.files[path].content>>
         ELSE <<>>

RECURSIVE InOrder(_, _)
\* the text holds the pieces, one after the other
InOrder(text, pieces) ==
    \/ pieces = <<>>
    \/ \E i \in 1..(Len(text) - Len(Head(pieces)) + 1) :
          /\ SubSeq(text, i, i + Len(Head(pieces)) - 1) = Head(pieces)
          /\ InOrder(SubSeq(text, i + Len(Head(pieces)), Len(text)),
                     Tail(pieces))

\* C17: append is additive on an archive and on a folder: once packages
\* sharing the sink have appended their fragments to WORKSPACE, the sink
\* holds a single WORKSPACE with every fragment, in order.
C17_AppendAdditive ==
    (sink # None /\ Fragments # <<>>)
        => /\ Len(Held(S_WORKSPACE)) = 1
           /\ InOrder(Held(S_WORKSPACE)[1], Fragments)


\* C19: new_repository derives the child package id as "@" + the parent
\* package with "/" replaced by "-" + "-" + name, and no two repositories
\* declared on the builders of one workspace get the same id (names being
\* unique within each parent, as the keys of a dict are).
C19_CollisionFree ==
    \A p1, p2 \in 1..Len(builders) :
        \A n1 \in DOMAIN builders[p1].repositories,
           n2 \in DOMAIN builders[p2].repositories :
            /\ builders[builders[p1].repositories[n1]].package
                   = <<"@">> \o Replace(builders[p1].package, "/", "-")
                         \o <<"-">> \o n1
            /\ (p1 # p2 \/ n1 # n2)
                   => builders[builders[p1].repositories[n1]].package
                          # builders[builders[p2].repositories[n2]].package

---------------------------------------------------------------------------
(* Claims about generate (SpecGenerate)                                    *)

\* generate has returned or raised
GenOver == gen_pc \in {"done", "raised"}

\* C16 as the spec states it: generate only reads the builders: they are
\* the same after as before, bindings included.
C16_GenerateOnlyReads == GenOver => builders = gen_before

\* C16, amended: generate changes nothing of the builders but their
\* bindings tables: rules, workspace rules, nested repositories, embedded
\* exports and staged files are the same after as before.
C16_GenerateOnlyBinds ==
    GenOver =>
        /\ Len(builders) = Len(gen_before)
        /\ \A b \in 1..Len(gen_before) :
              [builders[b] EXCEPT !.bindings = <<>>]
                  = [gen_before[b] EXCEPT !.bindings = <<>>]

\* generate has bound a label of a rule of a builder that has rules,
\* declares a repository and has a file to write
C16_Witness ==
    /\ gen_pc = "done"
    /\ gen_before[gen_builder].bindings = <<>>
    /\ builders[gen_builder].bindings # <<>>
    /\ builders[gen_builder].rules # <<>>
    /\ builders[gen_builder].workspace # <<>>

\* C18: when the source of an exported embedded file does not exist, copy
\* raises PackageGenerationFailure on an archive and on a folder, and
\* generate ends with that exception, the one the entry points handle.
C18_MissingSource ==
    \A i \in 1..Len(sink_log) :
        (sink_log[i].op = "copy" /\ sink_log[i].content.kind = "None")
            => /\ sink_log[i].exc = Raise("PackageGenerationFailure")
               /\ gen_pc = "raised"
               /\ gen_ret = Raise("PackageGenerationFailure")

RECURSIVE Under(_, _, _)
\* the builder b is top or a repository nested under it, at any depth
Under(bs, b, top) ==
    \/ b = top
    \/ bs[b].parent # 0 /\ Under(bs, bs[b].parent, top)

\* some file the sink holds under the path holds the piece
HeldHolds(path, piece) ==
    \E i \in 1..Len(Held(path)) : Contains(Held(path)[i], piece)

\* some build file written holds the piece
BuildFileHolds(piece) ==
    \E i \in 1..Len(sink_log) :
        /\ sink_log[i].op = "scratch_file"
        /\ Contains(sink_log[i].content, piece)

\* name = "<name>", the line of a rule of that name
NameLine(name) == <<"n", "a", "m", "e", " ", "=", " ", "\"">> \o name \o <<"\"">>

\* C20: after generate on a top-level builder nothing dangles, however
\* deep the repositories are nested: every repository declared has its
\* build file written at the path of its build_file attribute and its rule
\* in the fragment appended to WORKSPACE, and every "//external:..." label
\* of a build file written has its bind rule in the fragment.
C20_NoDangling ==
    gen_pc = "done" =>
        /\ \A b \in 1..Len(builders) :
              Under(builders, b, gen_builder) =>
                 \A i \in 1..Len(builders[b].workspace) :
                    /\ Held(builders[b].workspace[i].kwargs[N_build_file].s)
                           # <<>>
                    /\ HeldHolds(S_WORKSPACE,
                                 NameLine(builders[b].workspace[i]
                                              .kwargs[N_name].s))
        /\ \A b \in 1..Len(builders), name \in RuleNames :
              BuildFileHolds(<<"\"">> \o BindReturn(builders, b, name)
                                 \o <<"\"">>)
                 => HeldHolds(S_WORKSPACE,
                              NameLine(builders[b].package \o <<"/">>
                                           \o name))

---------------------------------------------------------------------------
(* Claims about __pc_variables (SpecPcVariables).                          *)

\* the variable references of the mapping form no cycle
AcyclicMapping(env) == \A k \in DOMAIN env : Acyclic(env[k], env)

\* the full expansion of the raw value of k against the raw mapping
FullExpansion(env, k) == Expand(env[k], env, Cardinality(DOMAIN env) + 1)

\* C21: the in-place substitution pass of __pc_variables is independent of
\* the iteration order: for every mapping whose references are acyclic,
\* whatever the order the entries are visited and rewritten in, each entry
\* of the mapping returned holds no ${name} token and equals the full
\* expansion of its raw value against the raw mapping.
C21_OrderIndependent ==
    pv_pc = "done" /\ AcyclicMapping(pv_raw) =>
        \A k \in DOMAIN pv_raw :
            /\ ~HasToken(pv_variables[k])
            /\ pv_variables[k] = FullExpansion(pv_raw, k)

\* no key of the mapping and no name its values refer to holds a dot
DotFree(env) ==
    \A n \in DOMAIN env \cup UNION {Refs(env[k]) : k \in DOMAIN env} :
        \A i \in 1..Len(n) : n[i] # "."

\* the pass on the mappings the unescaped name of sub_variables cannot
\* touch: there the entries returned are the full expansions in every order
PcVariablesDotFree ==
    pv_pc = "done" /\ AcyclicMapping(pv_raw) /\ DotFree(pv_raw) =>
        \A k \in DOMAIN pv_raw :
            /\ ~HasToken(pv_variables[k])
            /\ pv_variables[k] = FullExpansion(pv_raw, k)

\* a pass over an acyclic mapping always returns
PcVariablesReturns == AcyclicMapping(pv_raw) => pv_pc # "hang"

===========================================================================
